---- MODULE Spec2Model ----
(***************************************************************************)
(* A model of the TomTom maps chatbot agent (src/chatbot_agent.py) and of  *)
(* the Flask endpoints that drive it (src/app.py).                         *)
(*                                                                         *)
(* Query texts are TLA+ strings; the keyword tests, the regular            *)
(* expressions and the reply templates are computed on the characters, as  *)
(* the Python code computes them.  The text alphabet of the model is       *)
(* ASCII letters, digits, the space and punctuation: emoji of the reply    *)
(* templates are left out of the strings, and the only white space is the  *)
(* space character.                                                        *)
(***************************************************************************)
EXTENDS Integers, Sequences, FiniteSets, TLC

(***************************************************************************)
(* Strings                                                                 *)
(***************************************************************************)

Char(s, i) == SubSeq(s, i, i)

\* F on the value v: a local name for v
Let(v, F(_)) == F(v)

\* str.lower() on one character
LowerChar(c) ==
  CASE c = "A" -> "a" [] c = "B" -> "b" [] c = "C" -> "c" [] c = "D" -> "d"
    [] c = "E" -> "e" [] c = "F" -> "f" [] c = "G" -> "g" [] c = "H" -> "h"
    [] c = "I" -> "i" [] c = "J" -> "j" [] c = "K" -> "k" [] c = "L" -> "l"
    [] c = "M" -> "m" [] c = "N" -> "n" [] c = "O" -> "o" [] c = "P" -> "p"
    [] c = "Q" -> "q" [] c = "R" -> "r" [] c = "S" -> "s" [] c = "T" -> "t"
    [] c = "U" -> "u" [] c = "V" -> "v" [] c = "W" -> "w" [] c = "X" -> "x"
    [] c = "Y" -> "y" [] c = "Z" -> "z" [] OTHER -> c

RECURSIVE Lower(_)
Lower(s) == IF s = "" THEN "" ELSE LowerChar(Head(s)) \o Lower(Tail(s))

IsLetter(c) == Len(c) = 1 /\ LowerChar(c) \in
  {"a","b","c","d","e","f","g","h","i","j","k","l","m",
   "n","o","p","q","r","s","t","u","v","w","x","y","z"}

IsDigit(c) == c \in {"0","1","2","3","4","5","6","7","8","9"}

\* \s of the regular expressions and the white space of split() and strip()
IsSpace(c) == c = " "

\* Python's  k in s  on strings
Contains(s, k) ==
  \E i \in 1..(Len(s) - Len(k) + 1) : SubSeq(s, i, i + Len(k) - 1) = k

\* whether k occurs in s at position i
At(s, i, k) == i >= 1 /\ i + Len(k) - 1 <= Len(s) /\ SubSeq(s, i, i + Len(k) - 1) = k

RECURSIVE LStrip(_)
LStrip(s) == IF s # "" /\ IsSpace(Head(s)) THEN LStrip(Tail(s)) ELSE s

RECURSIVE RStrip(_)
RStrip(s) ==
  IF s # "" /\ IsSpace(Char(s, Len(s))) THEN RStrip(SubSeq(s, 1, Len(s) - 1)) ELSE s

\* str.strip()
Strip(s) == RStrip(LStrip(s))

\* str.split(): the maximal runs of non-space characters, in text order
RECURSIVE SplitFrom(_, _)
SplitFrom(s, i) ==
  IF i > Len(s) THEN << >>
  ELSE IF IsSpace(Char(s, i)) THEN SplitFrom(s, i + 1)
  ELSE Let(CHOOSE j \in i..Len(s) :
             /\ \A k \in i..j : ~IsSpace(Char(s, k))
             /\ (j = Len(s) \/ IsSpace(Char(s, j + 1))),
           LAMBDA e : <<SubSeq(s, i, e)>> \o SplitFrom(s, e + 1))

Split(s) == SplitFrom(s, 1)

\* ' '.join(words)
RECURSIVE Join(_)
Join(ws) ==
  IF ws = << >> THEN ""
  ELSE IF Len(ws) = 1 THEN ws[1]
  ELSE ws[1] \o " " \o Join(Tail(ws))

(***************************************************************************)
(* Query classification                                                    *)
(***************************************************************************)

location_keywords ==
  {"where", "location", "address", "place", "find", "search", "near", "nearby",
   "directions", "route", "how to get", "distance", "map", "coordinates",
   "geocode", "reverse geocode", "latitude", "longitude", "lat", "lon"}

search_keywords ==
  {"find", "search", "look for", "show me", "where is", "what is near",
   "restaurant", "hotel", "gas station", "coffee", "shopping", "hospital",
   "pharmacy", "bank", "atm", "parking", "park"}

directions_keywords ==
  {"directions", "route", "how to get", "navigate", "drive to", "walk to",
   "from", "to", "between", "distance", "travel time", "how long"}

geocoding_keywords == {"geocode", "coordinates"}

reverse_geocoding_keywords == {"reverse", "address"}

\* any(keyword in query_lower for keyword in keywords)
AnyKeyword(query, keywords) ==
  LET query_lower == Lower(query) IN \E k \in keywords : Contains(query_lower, k)

is_location_query(query) == AnyKeyword(query, location_keywords)

is_search_query(query) == AnyKeyword(query, search_keywords)

is_directions_query(query) == AnyKeyword(query, directions_keywords)

\* the if/elif chain of process_query: the query type, which names the handler
RouteSwapped(user_query) ==
  IF is_directions_query(user_query) THEN "directions"
  ELSE IF is_search_query(user_query) THEN "search"
  ELSE IF AnyKeyword(user_query, geocoding_keywords) THEN "geocoding"
  ELSE IF AnyKeyword(user_query, reverse_geocoding_keywords) THEN "reverse_geocoding"
  ELSE IF is_location_query(user_query) THEN "location"
  ELSE "general"

Route(user_query) ==
  IF is_search_query(user_query) THEN "search"
  ELSE IF is_directions_query(user_query) THEN "directions"
  ELSE IF AnyKeyword(user_query, geocoding_keywords) THEN "geocoding"
  ELSE IF AnyKeyword(user_query, reverse_geocoding_keywords) THEN "reverse_geocoding"
  ELSE IF is_location_query(user_query) THEN "location"
  ELSE "general"

(***************************************************************************)
(* Python values                                                           *)
(*                                                                         *)
(* A dict is a function on its keys; None is the record below; a float is  *)
(* the decimal number num / 10^scale, kept without trailing zeros.         *)
(***************************************************************************)

None == [py_none |-> TRUE]

EmptyDict == [k \in {} |-> None]

IsNone(v) == v = None

\* "k in d" for a dict d
HasKey(d, k) == k \in DOMAIN d

\* Python's truth value of a dict-or-None
Truthy(v) == ~IsNone(v) /\ DOMAIN v # {}

Max(S) == CHOOSE m \in S : \A n \in S : n <= m

Min(S) == CHOOSE m \in S : \A n \in S : m <= n

RECURSIVE Pow10(_)
Pow10(n) == IF n = 0 THEN 1 ELSE 10 * Pow10(n - 1)

DigitVal(c) ==
  CASE c = "0" -> 0 [] c = "1" -> 1 [] c = "2" -> 2 [] c = "3" -> 3 [] c = "4" -> 4
    [] c = "5" -> 5 [] c = "6" -> 6 [] c = "7" -> 7 [] c = "8" -> 8 [] c = "9" -> 9

RECURSIVE DigitsVal(_)
DigitsVal(s) ==
  IF s = "" THEN 0 ELSE 10 * DigitsVal(SubSeq(s, 1, Len(s) - 1)) + DigitVal(Char(s, Len(s)))

RECURSIVE NormFloat(_)
NormFloat(f) ==
  IF f.scale > 0 /\ f.num % 10 = 0
  THEN NormFloat([num |-> f.num \div 10, scale |-> f.scale - 1])
  ELSE f

\* the place of the decimal point in body, Len(body) + 1 without one
DotIndex(body) ==
  IF Contains(body, ".") THEN CHOOSE i \in 1..Len(body) : Char(body, i) = "."
  ELSE Len(body) + 1

\* the digits of body around its decimal point at dot
ParseUnsigned(body, dot) ==
  [num   |-> DigitsVal(SubSeq(body, 1, dot - 1) \o SubSeq(body, dot + 1, Len(body))),
   scale |-> IF dot > Len(body) THEN 0 ELSE Len(body) - dot]

\* float(s) for a string s matched by -?\d+\.?\d*
ParseFloat(s) ==
  NormFloat(IF At(s, 1, "-")
            THEN [ParseUnsigned(Tail(s), DotIndex(Tail(s))) EXCEPT !.num = 0 - @]
            ELSE ParseUnsigned(s, DotIndex(s)))

\* lo <= f <= hi for integers lo, hi
FloatBetween(lo, f, hi) ==
  lo * Pow10(f.scale) <= f.num /\ f.num <= hi * Pow10(f.scale)

RECURSIVE PadZeros(_, _)
PadZeros(s, n) == IF Len(s) >= n THEN s ELSE PadZeros("0" \o s, n)

\* str(f) of a float, as an f-string prints it
FloatStr(f) ==
  LET mag == IF f.num < 0 THEN 0 - f.num ELSE f.num
      sgn == IF f.num < 0 THEN "-" ELSE ""
  IN  IF f.scale = 0 THEN sgn \o ToString(mag) \o ".0"
      ELSE sgn \o ToString(mag \div Pow10(f.scale)) \o "."
               \o PadZeros(ToString(mag % Pow10(f.scale)), f.scale)

(***************************************************************************)
(* Parameter extraction                                                    *)
(***************************************************************************)

\* the end of the longest run of characters satisfying a class that starts at
\* position i of s (i - 1 when the character at i is not of the class)
DigitRunEnd(s, i) ==
  Max({i - 1} \cup {j \in i..Len(s) : \A k \in i..j : IsDigit(Char(s, k))})

SpaceRunEnd(s, i) ==
  Max({i - 1} \cup {j \in i..Len(s) : \A k \in i..j : IsSpace(Char(s, k))})

\* the end of  \d+\.?\d*  whose first run of digits is a..b, 0 when that run is empty
NumEndFrom(s, a, b) ==
  IF b < a THEN 0 ELSE DigitRunEnd(s, (IF At(s, b + 1, ".") THEN b + 1 ELSE b) + 1)

\* the end of the match of  -?\d+\.?\d*  at position i of s, 0 when it does not match
NumEnd(s, i) ==
  IF i > Len(s) THEN 0
  ELSE Let(IF At(s, i, "-") THEN i + 1 ELSE i,
           LAMBDA a : NumEndFrom(s, a, DigitRunEnd(s, a)))

\* coord_pattern  (-?\d+\.?\d*),\s*(-?\d+\.?\d*)  matched at position i
CoordMatchAt(s, i) ==
  Let(NumEnd(s, i), LAMBDA e1 :
    /\ e1 > 0
    /\ At(s, e1 + 1, ",")
    /\ NumEnd(s, SpaceRunEnd(s, e1 + 2) + 1) > 0)

\* the two groups of the match of coord_pattern at position i
CoordGroups(query, i) ==
  Let(NumEnd(query, i), LAMBDA e1 :
  Let(SpaceRunEnd(query, e1 + 2) + 1, LAMBDA j :
    [g1 |-> SubSeq(query, i, e1), g2 |-> SubSeq(query, j, NumEnd(query, j))]))

\* re.search(coord_pattern, query): the two groups of the leftmost match
CoordSearch(query) ==
  Let({i \in 1..Len(query) : CoordMatchAt(query, i)}, LAMBDA starts :
    IF starts = {} THEN None ELSE CoordGroups(query, Min(starts)))

\* the location of the coordinates lat, lon: None outside the ranges
LocationOf(lat, lon) ==
  IF FloatBetween(-90, lat, 90) /\ FloatBetween(-180, lon, 180)
  THEN [lat |-> lat, lon |-> lon]
  ELSE None

\* _extract_location_from_query, with the agent's user_context dict
extract_location_from_query(query, user_context) ==
  IF HasKey(user_context, "current_location") THEN user_context["current_location"]
  ELSE Let(CoordSearch(query), LAMBDA m :
         IF IsNone(m) THEN None ELSE LocationOf(ParseFloat(m.g1), ParseFloat(m.g2)))

\* [A-Za-z\s,]
IsAddrChar(c) == IsLetter(c) \/ IsSpace(c) \/ c = ","

AddrRunEnd(s, i) ==
  Max({i - 1} \cup {j \in i..Len(s) : \A k \in i..j : IsAddrChar(Char(s, k))})

\* (?:at|near|in|to|from)
address_preps == <<"at", "near", "in", "to", "from">>

\* (?:Street|St|Avenue|Ave|Road|Rd|Boulevard|Blvd|Drive|Dr|Lane|Ln|Way|Place|Pl),
\* lower-cased for re.IGNORECASE
address_suffixes ==
  <<"street", "st", "avenue", "ave", "road", "rd", "boulevard", "blvd",
    "drive", "dr", "lane", "ln", "way", "place", "pl">>

\* the end of the first of the alternatives alts that matches at position i of
\* the lower-cased text low (0: none)
AltEnd(low, i, alts) ==
  Let({n \in 1..Len(alts) : At(low, i, alts[n])}, LAMBDA ok :
    IF ok = {} THEN 0 ELSE i + Len(alts[Min(ok)]) - 1)

SuffixEnd(low, i) == AltEnd(low, i, address_suffixes)

PrepEnd(low, i) == AltEnd(low, i, address_preps)

\* [A-Za-z\s,]+(?:Street|...) with the group starting at g: the end of the group
\* (greedy: the longest run before a suffix), 0 when it does not match
SuffixedGroupEnd(s, g) ==
  Let(Lower(s), LAMBDA low :
  Let({e \in g..AddrRunEnd(s, g) : SuffixEnd(low, e + 1) > 0}, LAMBDA ok :
    IF ok = {} THEN 0 ELSE SuffixEnd(low, Max(ok) + 1)))

\* a group that follows  (?:at|near|in|to|from)\s+  at position i and ends
\* where GroupEnd says: <<start, end>> of the group, or << >>
AfterPrep(s, i, GroupEnd(_, _)) ==
  Let(PrepEnd(Lower(s), i), LAMBDA p :
    IF p = 0 THEN << >>
    ELSE Let({a \in (p + 1)..SpaceRunEnd(s, p + 1) : GroupEnd(s, a + 1) > a}, LAMBDA ok :
           IF ok = {} THEN << >> ELSE <<Max(ok) + 1, GroupEnd(s, Max(ok) + 1)>>))

\* pattern 1 at position i: <<start, end>> of group 1, or << >>
AddrPattern1At(s, i) == AfterPrep(s, i, SuffixedGroupEnd)

\* pattern 2 at position i: the optional state suffix never matches after the
\* greedy run, which has taken every comma
AddrPattern2At(s, i) == AfterPrep(s, i, AddrRunEnd)

\* pattern 3 at position i
AddrPattern3At(s, i) ==
  Let(SuffixedGroupEnd(s, i), LAMBDA e : IF e > 0 THEN <<i, e>> ELSE << >>)

\* re.search(pattern, query, re.IGNORECASE): group(1).strip() of the leftmost
\* match, None without a match
AddrSearch(query, PatternAt(_, _)) ==
  Let({i \in 1..Len(query) : PatternAt(query, i) # << >>}, LAMBDA starts :
    IF starts = {} THEN None
    ELSE Let(PatternAt(query, Min(starts)), LAMBDA g :
           [text |-> Strip(SubSeq(query, g[1], g[2]))]))

\* the first of the matches m1, m2, m3 that is one
FirstMatch(m1, m2, m3) == IF ~IsNone(m1) THEN m1 ELSE IF ~IsNone(m2) THEN m2 ELSE m3

\* _extract_address_from_query: the first pattern that matches decides
extract_address_from_query(query) ==
  FirstMatch(AddrSearch(query, AddrPattern1At), AddrSearch(query, AddrPattern2At),
             AddrSearch(query, AddrPattern3At))

\* \s+to\s+(.+)  matched at position b + 1 of s, low its lower-cased text
ToFollows(s, low, b) ==
  Let(SpaceRunEnd(s, b + 1), LAMBDA c :
    /\ c >= b + 1
    /\ At(low, c + 1, "to")
    /\ At(s, c + 3, " ")
    /\ Len(s) >= c + 4)

\* from_to_pattern  from\s+(.+?)\s+to\s+(.+)  at position i: the set of
\* <<a, b>>, a the end of the first \s+ and b the end of group 1
FromToAt(s, i) ==
  Let(Lower(s), LAMBDA low :
    IF ~At(low, i, "from") THEN {}
    ELSE {ab \in ((i + 4)..SpaceRunEnd(s, i + 4)) \X ((i + 5)..Len(s)) :
            ab[2] >= ab[1] + 1 /\ ToFollows(s, low, ab[2])})

\* the stripped groups of the match with the first \s+ ending at a and group 1 at b
FromToGroups(query, a, b) ==
  [origin_text      |-> Strip(SubSeq(query, a + 1, b)),
   destination_text |-> Strip(SubSeq(query, SpaceRunEnd(query, b + 1) + 3, Len(query)))]

\* re.search(from_to_pattern, query, re.IGNORECASE): the stripped groups of
\* the leftmost match (first \s+ greedy, group 1 lazy), None without a match
FromToSearch(query) ==
  Let({i \in 1..Len(query) : FromToAt(query, i) # {}}, LAMBDA starts :
    IF starts = {} THEN None
    ELSE Let(FromToAt(query, Min(starts)), LAMBDA c :
         Let(Max({ab[1] : ab \in c}), LAMBDA a :
           FromToGroups(query, a, Min({ab[2] : ab \in {x \in c : x[1] = a}})))))

common_places ==
  <<"restaurant", "hotel", "gas station", "coffee", "shopping", "hospital",
    "pharmacy", "bank", "atm", "parking", "park">>

search_stop_words == {"find", "search", "show", "me", "where", "is", "near", "nearby"}

\* the word filter, had it no stop words
SearchWordLong(word) == Len(word) > 3

SearchWordKept(word) == Len(word) > 3 /\ Lower(word) \notin search_stop_words

\* the search term of _handle_search_query: "" when there is none
search_term_of(query) ==
  Let({n \in 1..Len(common_places) : Contains(Lower(query), common_places[n])}, LAMBDA hits :
    IF hits # {} THEN common_places[Min(hits)]
    ELSE Let(SelectSeq(Split(query), SearchWordKept), LAMBDA kept :
           IF kept # << >> THEN kept[1] ELSE ""))

geocode_stop_words == {"what", "is", "the", "address", "for", "of", "where", "located"}

GeocodeWordKept(word) == Lower(word) \notin geocode_stop_words

\* the address of _handle_geocoding_query: "" when there is none
geocoding_address_of(query) ==
  Let(extract_address_from_query(query), LAMBDA address :
    IF ~IsNone(address) /\ address.text # "" THEN address.text
    ELSE Join(SelectSeq(Split(query), GeocodeWordKept)))

(***************************************************************************)
(* The capability provider                                                 *)
(*                                                                         *)
(* A Python call either returns a value or raises: Ret and Raise.  The     *)
(* field requests counts the upstream HTTP requests the call has sent.     *)
(* An upstream outcome up is what the one HTTP request meets: an exception *)
(* of the requests library (a timeout, a refused connection), a status     *)
(* other than 200, a 200 whose body is not JSON, or a 200 with a JSON body.*)
(***************************************************************************)

Ret(v) == [tag |-> "ret", val |-> v, requests |-> 0]

Raise(e) == [tag |-> "raise", exc |-> e, requests |-> 0]

Raised(r) == r.tag = "raise"

\* the call r, made after one HTTP request
Sent(r) == [r EXCEPT !.requests = 1]

\* d.get(k, default)
Get(d, k, default) == IF HasKey(d, k) THEN d[k] ELSE default

\* a Python int; floats have scale >= 0
PyInt(n) == [num |-> n, scale |-> 0 - 1]

\* str(v) of a number
NumStr(v) == IF v.scale < 0 THEN ToString(v.num) ELSE FloatStr(v)

\* str(e) of the exceptions the model raises
KeyErrorText(k) == "'" \o k \o "'"

TypeErrorNone == "argument of type 'NoneType' is not iterable"

JsonDecodeError == "Expecting value: line 1 column 1 (char 0)"

\* d[k], which raises KeyError
Item(d, k) == IF HasKey(d, k) THEN Ret(d[k]) ELSE Raise(KeyErrorText(k))

\* "k in v" for a value that may be None
InOrRaise(v, k) == IF IsNone(v) THEN Raise(TypeErrorNone) ELSE Ret(HasKey(v, k))

\* requests.get / requests.post answered by up, then the status test and
\* response.json() of the _direct_* functions
DirectResponse(up, label, Format(_)) ==
  Sent(IF up.kind = "exception" THEN Raise(up.exc)
       ELSE IF up.kind = "status" THEN Ret([error |-> label \o " API error: " \o ToString(up.code)])
       ELSE IF up.kind = "bad_json" THEN Raise(JsonDecodeError)
       ELSE Format(up.body))

FormatPlace(result) ==
  [name              |-> Get(Get(result, "poi", EmptyDict), "name", "Unknown"),
   formatted_address |-> Get(Get(result, "address", EmptyDict), "freeformAddress", "Unknown address"),
   location          |-> [lat |-> Get(Get(result, "position", EmptyDict), "lat", PyInt(0)),
                          lng |-> Get(Get(result, "position", EmptyDict), "lon", PyInt(0))],
   rating            |-> Get(Get(result, "poi", EmptyDict), "rating", PyInt(0))]

format_search_results(data) ==
  IF IsNone(data) THEN Raise(TypeErrorNone)
  ELSE IF ~HasKey(data, "results") THEN Ret([places |-> << >>])
  ELSE Ret([places |-> [i \in 1..Min({10, Len(data.results)}) |-> FormatPlace(data.results[i])]])

\* f"{meters / 1000:.1f} km" for meters that are no rounding tie
KmText(meters) ==
  LET tenths == (meters + 50) \div 100
  IN  ToString(tenths \div 10) \o "." \o ToString(tenths % 10) \o " km"

MinsText(seconds) == ToString(seconds \div 60) \o " mins"

RECURSIVE FlatSteps(_)
\* the instruction texts of the points of the legs, in order
FlatSteps(legs) ==
  IF legs = << >> THEN << >>
  ELSE LET leg == legs[1]
           pts == IF HasKey(leg, "points")
                  THEN SelectSeq(leg.points, LAMBDA pt : HasKey(pt, "instruction"))
                  ELSE << >>
       IN  [i \in 1..Len(pts) |-> [html_instructions |-> pts[i].instruction.text]]
           \o FlatSteps(Tail(legs))

format_route_results(data) ==
  IF IsNone(data) THEN Raise(TypeErrorNone)
  ELSE IF ~HasKey(data, "routes") \/ data.routes = << >> THEN Ret([routes |-> << >>])
  ELSE LET route   == data.routes[1]
           summary == Get(route, "summary", EmptyDict)
           meters  == Get(summary, "lengthInMeters", 0)
           seconds == Get(summary, "travelTimeInSeconds", 0)
       IN  Ret([routes |-> <<
             [summary |-> [distance |-> [text |-> KmText(meters), value |-> meters],
                           duration |-> [text |-> MinsText(seconds), value |-> seconds]],
              steps   |-> IF HasKey(route, "legs") THEN FlatSteps(route.legs) ELSE << >>] >>])

FormatGeocodeResult(result) ==
  [formatted_address |-> Get(Get(result, "address", EmptyDict), "freeformAddress", ""),
   geometry |-> [location |-> [lat |-> Get(Get(result, "position", EmptyDict), "lat", PyInt(0)),
                               lng |-> Get(Get(result, "position", EmptyDict), "lon", PyInt(0))]],
   place_id |-> Get(result, "id", "")]

format_geocode_results(data) ==
  IF IsNone(data) THEN Raise(TypeErrorNone)
  ELSE IF ~HasKey(data, "results") THEN Ret([results |-> << >>])
  ELSE Ret([results |-> [i \in 1..Len(data.results) |-> FormatGeocodeResult(data.results[i])]])

format_reverse_geocode_results(data) ==
  IF IsNone(data) THEN Raise(TypeErrorNone)
  ELSE IF ~HasKey(data, "addresses") \/ data.addresses = << >> THEN Ret([results |-> << >>])
  ELSE Ret([results |-> <<
         [formatted_address |->
            Get(Get(data.addresses[1], "address", EmptyDict), "freeformAddress", "")] >>])

FormatMatrixElement(item) ==
  LET summary == Get(item, "routeSummary", EmptyDict)
      meters  == Get(summary, "lengthInMeters", 0)
      seconds == Get(summary, "travelTimeInSeconds", 0)
  IN  [status   |-> "OK",
       distance |-> [value |-> meters, text |-> KmText(meters)],
       duration |-> [value |-> seconds, text |-> MinsText(seconds)]]

format_matrix_results(data) ==
  IF IsNone(data) THEN Raise(TypeErrorNone)
  ELSE IF ~HasKey(data, "data") THEN Ret([rows |-> << >>])
  ELSE Ret([rows |-> <<
         [elements |-> [i \in 1..Len(data.data) |-> FormatMatrixElement(data.data[i])]] >>])

direct_search(params, up) == DirectResponse(up, "Search", format_search_results)

direct_directions(params, up) ==
  LET origin      == Get(params, "origin", EmptyDict)
      destination == Get(params, "destination", EmptyDict)
  IN  IF ~Truthy(origin) \/ ~Truthy(destination)
      THEN Ret([error |-> "Origin and destination are required"])
      ELSE LET missing == {k \in {<<1, "lat">>, <<2, "lon">>} : ~HasKey(origin, k[2])}
                          \cup {k \in {<<3, "lat">>, <<4, "lon">>} : ~HasKey(destination, k[2])}
           IN  IF missing # {}
               THEN Raise(KeyErrorText((CHOOSE k \in missing : \A m \in missing : k[1] <= m[1])[2]))
               ELSE DirectResponse(up, "Directions", format_route_results)

direct_geocode(params, up) ==
  IF Get(params, "address", "") = "" THEN Ret([error |-> "Address is required"])
  ELSE DirectResponse(up, "Geocoding", format_geocode_results)

direct_reverse_geocode(params, up) ==
  IF IsNone(Get(params, "lat", None)) \/ IsNone(Get(params, "lon", None))
  THEN Ret([error |-> "Latitude and longitude are required"])
  ELSE DirectResponse(up, "Reverse geocoding", format_reverse_geocode_results)

StaticMapUrl(lat, lon, zoom, width, height) ==
  "https://api.tomtom.com/map/1/staticimage?key=KEY&center=" \o NumStr(lat) \o "," \o NumStr(lon)
    \o "&zoom=" \o NumStr(zoom) \o "&width=" \o NumStr(width) \o "&height=" \o NumStr(height)
    \o "&format=png"

direct_static_map(params, up) ==
  IF IsNone(Get(params, "lat", None)) \/ IsNone(Get(params, "lon", None))
  THEN Ret([error |-> "Latitude and longitude are required"])
  ELSE Ret([url |-> StaticMapUrl(params.lat, params.lon, Get(params, "zoom", PyInt(15)),
                                 Get(params, "width", PyInt(512)), Get(params, "height", PyInt(512)))])

direct_matrix(params, up) ==
  LET origins      == Get(params, "origins", << >>)
      destinations == Get(params, "destinations", << >>)
      Bad(p)       == ~HasKey(p, "lat") \/ ~HasKey(p, "lon")
      bad          == {i \in 1..Len(origins) : Bad(origins[i])}
                      \cup {Len(origins) + i : i \in {j \in 1..Len(destinations) : Bad(destinations[j])}}
      first        == IF Min(bad) <= Len(origins) THEN origins[Min(bad)]
                      ELSE destinations[Min(bad) - Len(origins)]
  IN  IF origins = << >> \/ destinations = << >>
      THEN Ret([error |-> "Origins and destinations are required"])
      ELSE IF bad # {}
      THEN Raise(KeyErrorText(IF ~HasKey(first, "lat") THEN "lat" ELSE "lon"))
      ELSE DirectResponse(up, "Matrix", format_matrix_results)

\* the dispatch of _call_direct_api, before its except clause
DirectDispatch(method, params, up) ==
  CASE method = "maps.search"         -> direct_search(params, up)
    [] method = "maps.directions"     -> direct_directions(params, up)
    [] method = "maps.geocode"        -> direct_geocode(params, up)
    [] method = "maps.reverseGeocode" -> direct_reverse_geocode(params, up)
    [] method = "maps.staticMap"      -> direct_static_map(params, up)
    [] method = "maps.matrix"         -> direct_matrix(params, up)
    [] OTHER                          -> Ret([error |-> "Unknown method: " \o method])

\* except Exception as e: return {"error": str(e)}
Caught(r) ==
  IF Raised(r) THEN [tag |-> "ret", val |-> [error |-> r.exc], requests |-> r.requests] ELSE r

call_direct_api_nocatch(method, params, up) == DirectDispatch(method, params, up)

call_direct_api(method, params, up) == Caught(DirectDispatch(method, params, up))

\* _call_mcp_method, had it posted the request once more after an exception
McpPostRetried(method, params, up) ==
  [tag |-> "ret", val |-> [error |-> "Failed to call MCP method"],
   requests |-> IF up.kind = "exception" THEN 2 ELSE 1]

\* the JSON-RPC request of _call_mcp_method and the reading of its answer,
\* before the except clause
McpPost(method, params, up) ==
  Sent(IF up.kind = "exception" THEN Raise(up.exc)
       ELSE IF up.kind = "status" THEN Ret([error |-> "Failed to call MCP method"])
       ELSE IF up.kind = "bad_json" THEN Raise(JsonDecodeError)
       ELSE LET result == up.body
            IN  IF IsNone(result) THEN Raise(TypeErrorNone)
                ELSE IF HasKey(result, "result") THEN Ret(result.result)
                ELSE IF HasKey(result, "error")
                THEN (IF HasKey(result.error, "message")
                      THEN Ret([error |-> result.error.message])
                      ELSE Raise(KeyErrorText("message")))
                ELSE Ret([error |-> "Failed to call MCP method"]))

call_mcp_method(direct, method, params, up) ==
  IF direct THEN call_direct_api(method, params, up)
  ELSE Caught(McpPost(method, params, up))

tomtom_methods ==
  [search |-> "maps.search", directions |-> "maps.directions", geocode |-> "maps.geocode",
   reverse_geocode |-> "maps.reverseGeocode", static_map |-> "maps.staticMap",
   matrix |-> "maps.matrix"]

(***************************************************************************)
(* The handlers of process_query                                           *)
(*                                                                         *)
(* A frame holds the locals of one process_query call.  Its stage is the   *)
(* place the call has reached: a handler stage, "call" (a provider call is *)
(* to be made: method, params, and next, the stage that reads its result), *)
(* "reply" (the handler has returned response) or "raise" (an exception    *)
(* exc is on its way to the except clause of process_query).               *)
(***************************************************************************)

\* r, then F on its value unless r raised
Bind(r, F(_)) == IF Raised(r) THEN r ELSE F(r.val)

Reply(f, text) == [f EXCEPT !.stage = "reply", !.response = text]

Throw(f, e) == [f EXCEPT !.stage = "raise", !.exc = e]

\* self._call_mcp_method(method, params), its result read at stage next
Call(f, method, params, next) ==
  [f EXCEPT !.stage = "call", !.method = method, !.params = params, !.next = next]

\* r a Ret of a frame, or a Raise
Settle(f, r) == IF Raised(r) THEN Throw(f, r.exc) ELSE r.val

search_need_term_reply ==
  "I'd be happy to help you search for places! Could you tell me what you're looking for? (e.g., 'Find restaurants near me' or 'Search for coffee shops')"

search_need_location_reply(search_term) ==
  "I can help you find " \o search_term
    \o ", but I need a location. Please provide coordinates (lat, lon) or tell me where you are."

search_error_reply(search_term, error) ==
  "Sorry, I couldn't search for " \o search_term \o " right now. " \o error

\* the reply to an empty result, had it been written with the error template
search_empty_as_apology(search_term) == search_error_reply(search_term, "No results found")

search_empty_reply(search_term) ==
  "I couldn't find any " \o search_term
    \o " in that area. Try a different location or search term."

search_shown == 5

RECURSIVE PlaceLines(_, _)
\* the lines of places i, i+1, ...: place['name'] and place['formatted_address'] raise
PlaceLines(places, i) ==
  IF i > Len(places) THEN Ret("")
  ELSE LET place == places[i]
       IN  Bind(Item(place, "name"), LAMBDA name :
           Bind(Item(place, "formatted_address"), LAMBDA addr :
           Bind(PlaceLines(places, i + 1), LAMBDA rest :
             Ret(ToString(i) \o ". **" \o name \o "**\n"
                 \o "    " \o addr \o "\n"
                 \o (IF HasKey(place, "rating")
                     THEN "    " \o NumStr(place.rating) \o "/5\n" ELSE "")
                 \o "\n" \o rest))))

handle_search_query(f, user_context) ==
  Let(search_term_of(f.user_query), LAMBDA search_term :
  Let(extract_location_from_query(f.user_query, user_context), LAMBDA location :
    IF search_term = "" THEN Reply(f, search_need_term_reply)
    ELSE IF ~Truthy(location)
    THEN Reply([f EXCEPT !.search_term = search_term], search_need_location_reply(search_term))
    ELSE Call([f EXCEPT !.search_term = search_term, !.location = location],
              tomtom_methods.search,
              [query |-> search_term, location |-> location], "search_result")))

handle_search_result(f) ==
  LET result == f.result
  IN  Settle(f,
        Bind(InOrRaise(result, "error"), LAMBDA has_error :
          IF has_error THEN Ret(Reply(f, search_error_reply(f.search_term, result.error)))
          ELSE IF HasKey(result, "places") /\ result.places # << >>
          THEN Bind(PlaceLines(SubSeq(result.places, 1, Min({search_shown, Len(result.places)})), 1),
                    LAMBDA lines :
                      Ret(Reply(f, "I found " \o ToString(Len(result.places)) \o " places for '"
                                   \o f.search_term \o "':\n\n" \o lines)))
          ELSE Ret(Reply(f, search_empty_reply(f.search_term)))))

directions_need_both_reply ==
  "I can help you get directions! Please provide both origin and destination. For example: 'How do I get from Seattle to Portland?' or 'Directions from 123 Main St to 456 Oak Ave'"

directions_error_reply(error) == "Sorry, I couldn't get directions right now. " \o error

directions_empty_reply ==
  "I couldn't find a route between those locations. Please check the addresses and try again."

steps_shown == 5

handle_directions_query(f) ==
  Let(FromToSearch(f.user_query), LAMBDA m :
    IF IsNone(m) THEN Reply(f, directions_need_both_reply)
    ELSE Call([f EXCEPT !.origin_text = m.origin_text, !.destination_text = m.destination_text],
              tomtom_methods.geocode, [address |-> m.origin_text], "directions_origin"))

\* the origin step, had it geocoded the origin text again and again
handle_directions_origin_again(f) ==
  Call(f, tomtom_methods.geocode, [address |-> f.origin_text], "directions_origin")

handle_directions_origin(f) ==
  Call([f EXCEPT !.origin_result = f.result],
       tomtom_methods.geocode, [address |-> f.destination_text], "directions_destination")

\* the location of the first result of a geocode result, None without results
FirstLocation(geocode_result) ==
  Bind(InOrRaise(geocode_result, "results"), LAMBDA has :
    IF has /\ geocode_result.results # << >>
    THEN Bind(Item(geocode_result.results[1], "geometry"), LAMBDA geometry :
         Bind(Item(geometry, "location"), LAMBDA loc :
         Bind(Item(loc, "lat"), LAMBDA lat :
         Bind(Item(loc, "lng"), LAMBDA lng :
           Ret([lat |-> lat, lon |-> lng])))))
    ELSE Ret(None))

handle_directions_destination(f) ==
  Settle(f,
    Bind(FirstLocation(f.origin_result), LAMBDA origin :
    Bind(FirstLocation(f.result), LAMBDA destination :
      IF ~Truthy(origin) \/ ~Truthy(destination)
      THEN Ret(Reply([f EXCEPT !.destination_result = f.result], directions_need_both_reply))
      ELSE Ret(Call([f EXCEPT !.destination_result = f.result,
                              !.origin = origin, !.destination = destination],
                    tomtom_methods.directions,
                    [origin |-> origin, destination |-> destination, travelMode |-> "car"],
                    "directions_result")))))

RECURSIVE StepLines(_, _)
StepLines(steps, i) ==
  IF i > Len(steps) THEN Ret("")
  ELSE Bind(Item(steps[i], "html_instructions"), LAMBDA text :
       Bind(StepLines(steps, i + 1), LAMBDA rest :
         Ret(ToString(i) \o ". " \o text \o "\n" \o rest)))

handle_directions_result(f) ==
  LET result == f.result
  IN  Settle(f,
        Bind(InOrRaise(result, "error"), LAMBDA has_error :
          IF has_error THEN Ret(Reply(f, directions_error_reply(result.error)))
          ELSE IF HasKey(result, "routes") /\ result.routes # << >>
          THEN LET route == result.routes[1]
               IN  Bind(Item(route, "summary"), LAMBDA summary :
                   Bind(Item(summary, "distance"), LAMBDA distance :
                   Bind(Item(distance, "text"), LAMBDA distance_text :
                   Bind(Item(summary, "duration"), LAMBDA duration :
                   Bind(Item(duration, "text"), LAMBDA duration_text :
                   Bind((IF HasKey(route, "steps") /\ route.steps # << >>
                         THEN StepLines(SubSeq(route.steps, 1, Min({steps_shown, Len(route.steps)})), 1)
                         ELSE Ret("")), LAMBDA lines :
                     Ret(Reply(f,
                       " **Directions Found**\n\n"
                       \o " **From:** " \o f.origin_text \o "\n"
                       \o " **To:** " \o f.destination_text \o "\n\n"
                       \o " **Distance:** " \o distance_text \o "\n"
                       \o " **Duration:** " \o duration_text \o "\n"
                       \o (IF HasKey(route, "steps") /\ route.steps # << >>
                           THEN "\n**Route Steps:**\n" \o lines
                                \o (IF Len(route.steps) > steps_shown
                                    THEN "... and " \o ToString(Len(route.steps) - steps_shown)
                                         \o " more steps\n"
                                    ELSE "")
                           ELSE "")))))))))
          ELSE Ret(Reply(f, directions_empty_reply))))

geocoding_need_address_reply ==
  "I can help you find coordinates for an address! Please provide an address. For example: 'What are the coordinates for 123 Main Street, Seattle, WA?'"

geocoding_error_reply(error) == "Sorry, I couldn't geocode that address right now. " \o error

geocoding_empty_reply(address) ==
  "I couldn't find coordinates for '" \o address \o "'. Please check the address and try again."

handle_geocoding_query(f) ==
  Let(geocoding_address_of(f.user_query), LAMBDA address :
    IF address = "" THEN Reply(f, geocoding_need_address_reply)
    ELSE Call([f EXCEPT !.address = address],
              tomtom_methods.geocode, [address |-> address], "geocoding_result"))

handle_geocoding_result(f) ==
  LET result == f.result
  IN  Settle(f,
        Bind(InOrRaise(result, "error"), LAMBDA has_error :
          IF has_error THEN Ret(Reply(f, geocoding_error_reply(result.error)))
          ELSE IF HasKey(result, "results") /\ result.results # << >>
          THEN LET location == result.results[1]
               IN  Bind(Item(location, "geometry"), LAMBDA geometry :
                   Bind(Item(geometry, "location"), LAMBDA coords :
                   Bind(Item(location, "formatted_address"), LAMBDA formatted :
                   Bind(Item(coords, "lat"), LAMBDA lat :
                   Bind(Item(coords, "lng"), LAMBDA lng :
                   Bind(Item(location, "place_id"), LAMBDA place_id :
                     Ret(Reply(f,
                       " **Address:** " \o formatted \o "\n"
                       \o " **Coordinates:** " \o NumStr(lat) \o ", " \o NumStr(lng) \o "\n"
                       \o " **Place ID:** " \o place_id \o "\n"))))))))
          ELSE Ret(Reply(f, geocoding_empty_reply(f.address)))))

reverse_need_location_reply ==
  "I can help you find an address for coordinates! Please provide latitude and longitude. For example: 'What's at 47.6062, -122.3321?'"

reverse_error_reply(error) ==
  "Sorry, I couldn't reverse geocode those coordinates right now. " \o error

reverse_empty_reply(location) ==
  "I couldn't find an address for coordinates " \o NumStr(location.lat) \o ", "
    \o NumStr(location.lon) \o "."

handle_reverse_geocoding_query(f, user_context) ==
  Let(extract_location_from_query(f.user_query, user_context), LAMBDA location :
    IF ~Truthy(location) THEN Reply(f, reverse_need_location_reply)
    ELSE Settle(f,
           Bind(Item(location, "lat"), LAMBDA lat :
           Bind(Item(location, "lon"), LAMBDA lon :
             Ret(Call([f EXCEPT !.location = location],
                      tomtom_methods.reverse_geocode,
                      [lat |-> lat, lon |-> lon], "reverse_result"))))))

handle_reverse_geocoding_result(f) ==
  LET result   == f.result
      location == f.location
  IN  Settle(f,
        Bind(InOrRaise(result, "error"), LAMBDA has_error :
          IF has_error THEN Ret(Reply(f, reverse_error_reply(result.error)))
          ELSE IF HasKey(result, "results") /\ result.results # << >>
          THEN Bind(Item(result.results[1], "formatted_address"), LAMBDA formatted :
                 Ret(Reply(f,
                   " **Coordinates:** " \o NumStr(location.lat) \o ", " \o NumStr(location.lon) \o "\n"
                   \o " **Address:** " \o formatted \o "\n")))
          ELSE Ret(Reply(f, reverse_empty_reply(location)))))

general_weather_reply ==
  "I can help with location-based queries using TomTom maps, but I don't have access to real-time weather data. You might want to check a weather service for current conditions."

\* datetime.now() is printed as <now>
general_time_reply ==
  "The current time is <now>. I can help you find places or get directions if you need to plan your schedule!"

general_greeting_reply ==
  "Hello! I'm your TomTom Maps assistant. I can help you with:\n\n **Search for places** (restaurants, hotels, etc.)\n **Get directions** between locations\n **Find coordinates** for addresses\n **Find addresses** for coordinates\n **Generate map images**\n\nWhat would you like to do?"

\* the first line of the help text; the examples that follow it are left out
general_help_reply ==
  "I'm a TomTom Maps assistant that can help you with location-based queries:"

general_default_reply ==
  "I'm specialized in location-based queries using TomTom maps. I can help you search for places, get directions, find coordinates, or generate map images. Could you rephrase your question in a location-related context?"

\* the general handler, had it tried the geocoding of the text first
handle_general_as_geocoding(f) == handle_geocoding_query(f)

handle_general_query(f) ==
  LET q == f.user_query
  IN  Reply(f,
        IF AnyKeyword(q, {"weather", "temperature", "rain", "sunny", "cloudy"})
        THEN general_weather_reply
        ELSE IF AnyKeyword(q, {"time", "clock", "hour", "minute"}) THEN general_time_reply
        ELSE IF AnyKeyword(q, {"hello", "hi", "hey", "greetings"}) THEN general_greeting_reply
        ELSE IF AnyKeyword(q, {"help", "what can you do", "capabilities"}) THEN general_help_reply
        ELSE general_default_reply)

\* the handler that process_query calls for a query type
StartHandler(f, user_context) ==
  CASE f.query_type = "search"            -> handle_search_query(f, user_context)
    [] f.query_type = "directions"        -> handle_directions_query(f)
    [] f.query_type = "geocoding"         -> handle_geocoding_query(f)
    [] f.query_type = "reverse_geocoding" -> handle_reverse_geocoding_query(f, user_context)
    [] f.query_type = "location"          -> handle_geocoding_query(f)
    [] OTHER                              -> handle_general_query(f)

\* the code that reads the result of a provider call
Resume(f) ==
  CASE f.stage = "search_result"          -> handle_search_result(f)
    [] f.stage = "directions_origin"      -> handle_directions_origin(f)
    [] f.stage = "directions_destination" -> handle_directions_destination(f)
    [] f.stage = "directions_result"      -> handle_directions_result(f)
    [] f.stage = "geocoding_result"       -> handle_geocoding_result(f)
    [] f.stage = "reverse_result"         -> handle_reverse_geocoding_result(f)

(***************************************************************************)
(* The session store                                                       *)
(***************************************************************************)

\* the entries process_query appends; call numbers the process_query call and
\* stands for the timestamp, which the model leaves out
UserEntry(user_id, user_query, call) ==
  [user_id |-> user_id, query |-> user_query, type |-> "user", call |-> call]

AssistantEntry(user_id, response, query_type, call) ==
  [user_id |-> user_id, response |-> response, type |-> "assistant",
   query_type |-> query_type, call |-> call]

\* [msg for msg in self.conversation_history if msg.get("user_id") == user_id]
UserHistory(history, user_id) == SelectSeq(history, LAMBDA msg : msg.user_id = user_id)

\* xs[-limit:] of Python, for limit # 0
LastSlice(xs, limit) ==
  LET start == IF limit > 0 THEN Max({0, Len(xs) - limit}) ELSE Min({Len(xs), 0 - limit})
  IN  SubSeq(xs, start + 1, Len(xs))

\* a read that ignores the limit
get_conversation_history_unlimited(history, user_id, limit) == UserHistory(history, user_id)

\* a read that leaves out the test of the user id
get_conversation_history_all_users(history, user_id, limit) ==
  IF limit # 0 THEN LastSlice(history, limit) ELSE history

\* get_conversation_history(user_id, limit);  "if limit" is false for 0 only
get_conversation_history(history, user_id, limit) ==
  IF limit # 0 THEN LastSlice(UserHistory(history, user_id), limit)
  ELSE UserHistory(history, user_id)

default_limit == 10

\* a store that keeps the last context only
DictReplace(d, context) == context

\* dict.update
DictUpdate(d, context) ==
  [k \in DOMAIN d \cup DOMAIN context |-> IF k \in DOMAIN context THEN context[k] ELSE d[k]]

get_user_context(contexts, user_id) == Get(contexts, user_id, EmptyDict)

(***************************************************************************)
(* Inputs and bounds                                                       *)
(***************************************************************************)

\* process_query calls started in one behaviour of the threaded server
MaxCalls == 2

\* process_query calls started in one behaviour of the server with one thread
MaxQueries == 1

\* set_user_context calls started in one behaviour
MaxContextCalls == 3

\* items of the longest list an upstream answers with
MaxItems == 2

\* the request threads of the Flask server
Threads == {"t1", "t2"}

\* "current_location" is a user id like any other; the agent keeps the
\* contexts of all users in the dict in which it looks up 'current_location'
Users == {"alice", "current_location"}

QueryTexts ==
  {"Find coffee shops near 47.6062, -122.3321",
   "Find coffee",
   "find me",
   "Find a route from A to B",
   "How do I get from Seattle to Portland?",
   "route home",
   "from a to  ",
   "What are the coordinates for 123 Main Street, Seattle?",
   "reverse geocode 47.6062, -122.3321",
   "address of 47.6062, -122.3321",
   "my address",
   "where am I",
   "What's at 47.6062, -122.3321?",
   "Hello!",
   "help",
   "What's the weather like today?",
   ""}

Float(num, scale) == [num |-> num, scale |-> scale]

Seattle == [lat |-> Float(476062, 4), lon |-> Float(-1223321, 4)]

Portland == [lat |-> Float(455152, 4), lon |-> Float(-1226784, 4)]

\* the context arguments of set_user_context
ContextUpdates ==
  {[current_location |-> Seattle],
   [current_location |-> Portland],
   [preferences |-> [travel_mode |-> "car"]],
   Seattle}

\* the texts of the chat requests that run concurrently
SharedTexts == {"Hello!", "Find coffee shops near 47.6062, -122.3321", "my address"}

\* process_query calls started in one behaviour that reads the log
MaxTurns == 6

\* the texts of the chat requests that build the log that is read
HistoryTexts == {"Hello!"}

\* the largest limit of GET /api/chat/history
MaxLimit == 12

\* limit of GET /api/chat/history, where it is given
Limits == (0 - 2)..MaxLimit

\* the methods _call_mcp_method is called with
ProviderMethods ==
  {"maps.search", "maps.directions", "maps.geocode", "maps.reverseGeocode", "maps.staticMap",
   "maps.matrix", "maps.unknown"}

\* the parameter bags _call_mcp_method is called with
ProviderParams ==
  {EmptyDict,
   [query |-> "coffee", location |-> Seattle],
   [query |-> "coffee", location |-> None],
   [address |-> "123 Main Street"],
   [address |-> ""],
   Seattle,
   [lat |-> None, lon |-> None],
   [origin |-> Seattle, destination |-> Portland, travelMode |-> "car"],
   [origin |-> Seattle, destination |-> [lat |-> Float(455152, 4)]],
   [origins |-> <<Seattle>>, destinations |-> <<Portland>>],
   [origins |-> <<Seattle>>, destinations |-> <<EmptyDict>>]}

\* upstream outcomes other than a 200 with a JSON body
UpstreamFailures ==
  {[kind |-> "exception", exc |-> "Read timed out"],
   [kind |-> "exception", exc |-> "Connection refused"],
   [kind |-> "status", code |-> 500],
   [kind |-> "bad_json"]}

UpJson(body) == [kind |-> "json", body |-> body]

\* no outcome: what a call is evaluated with to learn whether it sends a request
NoUpstream == [kind |-> "exception", exc |-> ""]

ItemCounts == {0, 1, MaxItems}

PlaceName(i) == "Place " \o ToString(i)

\* the TomTom API's JSON of a search result, a geocode result, a route
RawPlace(i) ==
  [poi      |-> [name |-> PlaceName(i), rating |-> Float(45, 1)],
   address  |-> [freeformAddress |-> ToString(i) \o " Main St"],
   position |-> Seattle]

RawGeocode(i) ==
  [address |-> [freeformAddress |-> ToString(i) \o " Main St"], position |-> Seattle,
   id |-> "id" \o ToString(i)]

RawRoute(n) ==
  [summary |-> [lengthInMeters |-> 278530, travelTimeInSeconds |-> 10260],
   legs    |-> << [points |-> [i \in 1..n |-> [instruction |-> [text |-> "Step " \o ToString(i)]]]] >>]

DirectBodies(method) ==
  CASE method = "maps.search" ->
         {None, [summary |-> "none"]} \cup {[results |-> [i \in 1..n |-> RawPlace(i)]] : n \in ItemCounts}
         \cup {[results |-> <<EmptyDict>>]}
    [] method = "maps.geocode" ->
         {None, [summary |-> "none"]} \cup {[results |-> [i \in 1..n |-> RawGeocode(i)]] : n \in {0, 1}}
         \cup {[results |-> <<EmptyDict>>]}
    [] method = "maps.reverseGeocode" ->
         {None, [addresses |-> << >>], [addresses |-> <<[address |-> [freeformAddress |-> "1 Main St"]]>>],
          [addresses |-> <<EmptyDict>>]}
    [] method = "maps.directions" ->
         {None, [routes |-> << >>]} \cup {[routes |-> <<RawRoute(n)>>] : n \in ItemCounts}
         \cup {[routes |-> <<EmptyDict>>]}
    [] method = "maps.matrix" ->
         {None, [summary |-> "none"],
          [data |-> <<[routeSummary |-> [lengthInMeters |-> 1230, travelTimeInSeconds |-> 125]]>>]}
    [] OTHER -> {None}

\* the results an MCP server answers with: those the handlers expect, and
\* results of another shape
McpPayloads(method) ==
  CASE method = "maps.search" ->
         {None, [error |-> "quota exceeded"], [places |-> <<[rating |-> Float(45, 1)]>>]}
         \cup {format_search_results([results |-> [i \in 1..n |-> RawPlace(i)]]).val : n \in ItemCounts}
    [] method = "maps.geocode" ->
         {None, [error |-> "quota exceeded"], [results |-> <<[formatted_address |-> "1 Main St"]>>]}
         \cup {format_geocode_results([results |-> [i \in 1..n |-> RawGeocode(i)]]).val : n \in {0, 1}}
    [] method = "maps.reverseGeocode" ->
         {None, [error |-> "quota exceeded"], [results |-> << >>], [results |-> <<EmptyDict>>],
          [results |-> <<[formatted_address |-> "1 Main St"]>>]}
    [] method = "maps.directions" ->
         {None, [error |-> "quota exceeded"], [routes |-> << >>], [routes |-> <<EmptyDict>>]}
         \cup {format_route_results([routes |-> <<RawRoute(n)>>]).val : n \in ItemCounts}
    [] OTHER -> {None, [error |-> "quota exceeded"]}

McpBodies(method) ==
  {None, [jsonrpc |-> "2.0"], [error |-> [message |-> "Method failed"]], [error |-> [code |-> "E1"]]}
  \cup {[result |-> p] : p \in McpPayloads(method)}

\* what the upstream of a provider call may answer
Upstreams(direct, method) ==
  UpstreamFailures \cup {UpJson(b) : b \in (IF direct THEN DirectBodies(method) ELSE McpBodies(method))}

(***************************************************************************)
(* The agent and its request threads                                       *)
(***************************************************************************)

VARIABLES
  use_direct_api,        \* the agent's mode: direct TomTom API, or MCP server
  conversation_history,  \* self.conversation_history
  user_context,          \* self.user_context
  pc,                    \* per thread: where its request stands
  frame,                 \* per thread: the locals of the call it is in
  ret,                   \* per thread: what its call returned
  context_calls,         \* per user: the contexts of the set_user_context calls made, in order
  started,               \* the numbers of process_query and set_user_context calls started
  orchestrator           \* the MultiAgentOrchestrator: self.conversation_id, and the
                         \* user_contexts of its context manager agent

vars == <<use_direct_api, conversation_history, user_context, pc, frame, ret,
          context_calls, started, orchestrator>>

NoFrame == [op |-> "none"]

\* the locals of process_query(user_query, user_id) as it starts
QueryFrame(user_query, user_id, call, log_before) ==
  [op |-> "process_query", user_query |-> user_query, user_id |-> user_id, call |-> call,
   log_before |-> log_before,
   stage |-> "route", query_type |-> "", search_term |-> "", location |-> None, address |-> "",
   origin_text |-> "", destination_text |-> "", origin_result |-> None,
   destination_result |-> None, origin |-> None, destination |-> None,
   method |-> "", params |-> EmptyDict, next |-> "", result |-> None,
   response |-> "", exc |-> "", invocations |-> << >>]

Init ==
  /\ use_direct_api \in BOOLEAN
  /\ conversation_history = << >>
  /\ user_context = EmptyDict
  /\ pc = [t \in Threads |-> "idle"]
  /\ frame = [t \in Threads |-> NoFrame]
  /\ ret = [t \in Threads |-> None]
  /\ context_calls = [u \in Users |-> << >>]
  /\ started = [queries |-> 0, contexts |-> 0]
  /\ orchestrator = [conversation_id |-> None, user_contexts |-> EmptyDict]

\* the provider call of frame f has returned r
AfterCall(f, r) ==
  LET g == [f EXCEPT !.invocations = Append(@, [method |-> f.method, params |-> f.params])]
  IN  IF Raised(r) THEN Throw(g, r.exc)
      ELSE Resume([g EXCEPT !.result = r.val, !.stage = g.next])

RECURSIVE Run(_, _)
\* the handler runs on until it returns, raises or waits for an upstream
Run(f, direct) ==
  IF f.stage # "call" THEN f
  ELSE Let(call_mcp_method(direct, f.method, f.params, NoUpstream), LAMBDA r :
         IF r.requests > 0 THEN f ELSE Run(AfterCall(f, r), direct))

error_reply == "Sorry, I encountered an error processing your request. Please try again."

SuccessBundle(f) ==
  [success |-> TRUE, response |-> f.response, query_type |-> f.query_type, user_id |-> f.user_id]

ErrorBundle(f) ==
  [success |-> FALSE, error |-> f.exc, response |-> error_reply, user_id |-> f.user_id]

\* process_query goes on to f: it waits for an upstream, or it ends with the
\* assistant entry and the bundle, or in its except clause
Complete(t, f) ==
  IF f.stage = "call"
  THEN /\ pc' = [pc EXCEPT ![t] = "upstream"]
       /\ frame' = [frame EXCEPT ![t] = f]
       /\ UNCHANGED <<conversation_history, ret>>
  ELSE /\ pc' = [pc EXCEPT ![t] = "done"]
       /\ frame' = [frame EXCEPT ![t] = f]
       /\ IF f.stage = "reply"
          THEN /\ conversation_history' =
                    Append(conversation_history,
                           AssistantEntry(f.user_id, f.response, f.query_type, f.call))
               /\ ret' = [ret EXCEPT ![t] = SuccessBundle(f)]
          ELSE /\ ret' = [ret EXCEPT ![t] = ErrorBundle(f)]
               /\ UNCHANGED conversation_history

\* POST /api/chat: process_query starts and appends the user entry
Chat(t, user_message, user_id) ==
  /\ pc[t] = "idle"
  /\ started' = [started EXCEPT !.queries = @ + 1]
  /\ conversation_history' =
       Append(conversation_history, UserEntry(user_id, user_message, started.queries + 1))
  /\ frame' = [frame EXCEPT ![t] = QueryFrame(user_message, user_id, started.queries + 1,
                                              UserHistory(conversation_history, user_id))]
  /\ pc' = [pc EXCEPT ![t] = "route"]
  /\ UNCHANGED <<orchestrator, use_direct_api, user_context, ret, context_calls>>

\* process_query picks the handler, which runs up to its first upstream request
Dispatch(t) ==
  /\ pc[t] = "route"
  /\ Complete(t, Run(StartHandler([frame[t] EXCEPT !.query_type = Route(frame[t].user_query)],
                                   user_context),
                      use_direct_api))
  /\ UNCHANGED <<orchestrator, use_direct_api, user_context, context_calls, started>>

\* the upstream answers the request of the pending provider call with one of ups
UpstreamAnswers(t, ups) ==
  /\ pc[t] = "upstream"
  /\ \E up \in ups :
       Complete(t, Run(AfterCall(frame[t],
                                 call_mcp_method(use_direct_api, frame[t].method,
                                                 frame[t].params, up)),
                       use_direct_api))
  /\ UNCHANGED <<orchestrator, use_direct_api, user_context, context_calls, started>>

\* the upstream answers the request of the pending provider call
UpstreamResponds(t) == UpstreamAnswers(t, Upstreams(use_direct_api, frame[t].method))

\* POST /api/context: set_user_context tests "user_id not in self.user_context"
SetContextTest(t, user_id, context) ==
  /\ pc[t] = "idle"
  /\ started' = [started EXCEPT !.contexts = @ + 1]
  /\ frame' = [frame EXCEPT ![t] = [op |-> "set_user_context", user_id |-> user_id,
                                    context |-> context]]
  /\ pc' = [pc EXCEPT ![t] = IF HasKey(user_context, user_id) THEN "update" ELSE "create"]
  /\ UNCHANGED <<orchestrator, use_direct_api, conversation_history, user_context, ret, context_calls>>

\* self.user_context[user_id] = {}
SetContextCreate(t) ==
  /\ pc[t] = "create"
  /\ user_context' = [u \in DOMAIN user_context \cup {frame[t].user_id} |->
                        IF u = frame[t].user_id THEN EmptyDict ELSE user_context[u]]
  /\ pc' = [pc EXCEPT ![t] = "update"]
  /\ UNCHANGED <<orchestrator, use_direct_api, conversation_history, frame, ret, context_calls, started>>

\* self.user_context[user_id].update(context)
SetContextUpdate(t) ==
  /\ pc[t] = "update"
  /\ user_context' = [user_context EXCEPT ![frame[t].user_id] = DictUpdate(@, frame[t].context)]
  /\ context_calls' = [context_calls EXCEPT ![frame[t].user_id] = Append(@, frame[t].context)]
  /\ ret' = [ret EXCEPT ![t] = None]
  /\ pc' = [pc EXCEPT ![t] = "done"]
  /\ UNCHANGED <<orchestrator, use_direct_api, conversation_history, frame, started>>

\* GET /api/context/<user_id>
GetContext(t, user_id) ==
  /\ pc[t] = "idle"
  /\ frame' = [frame EXCEPT ![t] = [op |-> "get_user_context", user_id |-> user_id]]
  /\ ret' = [ret EXCEPT ![t] = get_user_context(user_context, user_id)]
  /\ pc' = [pc EXCEPT ![t] = "done"]
  /\ UNCHANGED <<orchestrator, use_direct_api, conversation_history, user_context, context_calls, started>>

\* GET /api/chat/history with limit=N
GetHistory(t, user_id, limit) ==
  /\ pc[t] = "idle"
  /\ frame' = [frame EXCEPT ![t] = [op |-> "get_conversation_history", user_id |-> user_id,
                                    limit |-> limit, given |-> TRUE]]
  /\ ret' = [ret EXCEPT ![t] = get_conversation_history(conversation_history, user_id, limit)]
  /\ pc' = [pc EXCEPT ![t] = "done"]
  /\ UNCHANGED <<orchestrator, use_direct_api, conversation_history, user_context, context_calls, started>>

\* GET /api/chat/history without a limit: request.args.get('limit', 10)
GetHistoryNoLimit(t, user_id) ==
  /\ pc[t] = "idle"
  /\ frame' = [frame EXCEPT ![t] = [op |-> "get_conversation_history", user_id |-> user_id,
                                    limit |-> default_limit, given |-> FALSE]]
  /\ ret' = [ret EXCEPT ![t] =
               get_conversation_history(conversation_history, user_id, default_limit)]
  /\ pc' = [pc EXCEPT ![t] = "done"]
  /\ UNCHANGED <<orchestrator, use_direct_api, conversation_history, user_context, context_calls, started>>

\* the response is sent and the thread takes the next request
Return(t) ==
  /\ pc[t] = "done"
  /\ pc' = [pc EXCEPT ![t] = "idle"]
  /\ frame' = [frame EXCEPT ![t] = NoFrame]
  /\ ret' = [ret EXCEPT ![t] = None]
  /\ UNCHANGED <<orchestrator, use_direct_api, conversation_history, user_context, context_calls, started>>

\* self._call_mcp_method(method, params) is called on the agent
ProviderCall(t, method, params) ==
  /\ pc[t] = "idle"
  /\ frame' = [frame EXCEPT ![t] = [op |-> "_call_mcp_method", method |-> method,
                                    params |-> params, up |-> NoUpstream]]
  /\ pc' = [pc EXCEPT ![t] = "provider"]
  /\ UNCHANGED <<orchestrator, use_direct_api, conversation_history, user_context, ret, context_calls, started>>

\* the call runs to its end, its upstream answering up if it is asked
ProviderReturns(t) ==
  /\ pc[t] = "provider"
  /\ \E up \in Upstreams(use_direct_api, frame[t].method) :
       /\ frame' = [frame EXCEPT ![t].up = up]
       /\ ret' = [ret EXCEPT ![t] =
                    call_mcp_method(use_direct_api, frame[t].method, frame[t].params, up)]
  /\ pc' = [pc EXCEPT ![t] = "done"]
  /\ UNCHANGED <<orchestrator, use_direct_api, conversation_history, user_context, context_calls, started>>

\* the steps of thread t in process_query calls on texts, at most max of them
QueryStep(t, texts, max) ==
  \/ /\ started.queries < max
     /\ \E q \in texts, u \in Users : Chat(t, q, u)
  \/ Dispatch(t)
  \/ UpstreamResponds(t)

\* the steps of thread t in the calls on the user contexts
ContextStep(t) ==
  \/ /\ started.contexts < MaxContextCalls
     /\ \E u \in Users, c \in ContextUpdates : SetContextTest(t, u, c)
  \/ SetContextCreate(t)
  \/ SetContextUpdate(t)
  \/ \E u \in Users : GetContext(t, u)

\* the steps of thread t in the reads of the conversation log
HistoryStep(t) ==
  \/ \E u \in Users, n \in Limits : GetHistory(t, u, n)
  \/ \E u \in Users : GetHistoryNoLimit(t, u)

(***************************************************************************)
(* QuerySpec: a server with one thread answers chat requests               *)
(***************************************************************************)

QueryNext == QueryStep("t1", QueryTexts, MaxQueries) \/ Return("t1")

QuerySpec == Init /\ [][QueryNext]_vars

(***************************************************************************)
(* Spec: the threaded server answers chat requests concurrently            *)
(***************************************************************************)

Next == \E t \in Threads : QueryStep(t, SharedTexts, MaxCalls) \/ Return(t)

Spec == Init /\ [][Next]_vars

(***************************************************************************)
(* ContextSpec: a server with one thread sets and reads user contexts      *)
(***************************************************************************)

ContextNext == ContextStep("t1") \/ Return("t1")

ContextSpec == Init /\ [][ContextNext]_vars

(***************************************************************************)
(* HistorySpec: a server with one thread answers chat requests and reads   *)
(* the conversation log                                                    *)
(***************************************************************************)

HistoryNext ==
  \/ /\ started.queries < MaxTurns
     /\ \E q \in HistoryTexts, u \in Users : Chat("t1", q, u)
  \/ Dispatch("t1")
  \/ HistoryStep("t1")
  \/ Return("t1")

HistorySpec == Init /\ [][HistoryNext]_vars

(***************************************************************************)
(* ProviderSpec: the provider is called with any method and parameters     *)
(***************************************************************************)

ProviderNext ==
  \/ \E m \in ProviderMethods, p \in ProviderParams : ProviderCall("t1", m, p)
  \/ ProviderReturns("t1")
  \/ Return("t1")

ProviderSpec == Init /\ [][ProviderNext]_vars

(***************************************************************************)
(* LiveSpec: a server with one thread answers a chat request of every      *)
(* kind.  The thread goes on running its handler, and every upstream       *)
(* request is answered or times out (timeout=10 on every request of the    *)
(* agent): the step of the thread at "route" (Dispatch) and its step at    *)
(* "upstream" (UpstreamResponds) are weakly fair.                          *)
(***************************************************************************)

LiveTexts ==
  {"Find coffee shops near 47.6062, -122.3321",
   "How do I get from Seattle to Portland?",
   "What are the coordinates for 123 Main Street, Seattle?",
   "reverse geocode 47.6062, -122.3321",
   "Hello!"}

LiveNext == QueryStep("t1", LiveTexts, MaxQueries) \/ Return("t1")

\* weak fairness of the step of thread t at the place at, as
\* []<>~ENABLED <<A>>_vars \/ []<><<A>>_vars: the step is enabled exactly
\* where pc[t] = at, and it is the one step that changes the frame there
StepFair(t, at) ==
  \/ []<>(pc[t] # at)
  \/ []<><<pc[t] = at /\ frame'[t] # frame[t]>>_vars

LiveSpec ==
  /\ Init /\ [][LiveNext]_vars
  /\ StepFair("t1", "route")
  /\ StepFair("t1", "upstream")

(***************************************************************************)
(* SharedContextSpec: the threaded server sets and reads user contexts     *)
(* concurrently                                                            *)
(***************************************************************************)

SharedContextNext == \E t \in Threads : ContextStep(t) \/ Return(t)

SharedContextSpec == Init /\ [][SharedContextNext]_vars

(***************************************************************************)
(* ListSpec: a server with one thread answers search and directions        *)
(* requests; the upstream results are longer than the replies show         *)
(***************************************************************************)

\* search texts with one and with two place categories, with none, and with
\* no search term at all; a directions text
ListTexts ==
  {"Find coffee shops near 47.6062, -122.3321",
   "Find parking near 47.6062, -122.3321",
   "Find coffee in a hotel near 47.6062, -122.3321",
   "Search for Pizza near 47.6062, -122.3321",
   "Find me near 47.6062, -122.3321",
   "find me",
   "How do I get from Seattle to Portland?"}

\* the lengths of the lists the upstream answers with: the number shown and more
LongCounts == {n + k : n \in {search_shown, steps_shown}, k \in 0..MaxItems}

\* the answers with long lists, as the TomTom API and as the MCP server give them
LongBodies(direct, method) ==
  LET Raw(n) ==
        CASE method = "maps.search"     -> [results |-> [i \in 1..n |-> RawPlace(i)]]
          [] method = "maps.directions" -> [routes |-> <<RawRoute(n)>>]
          [] OTHER                      -> [results |-> <<RawGeocode(1)>>]
      Formatted(n) ==
        CASE method = "maps.search"     -> format_search_results(Raw(n)).val
          [] method = "maps.directions" -> format_route_results(Raw(n)).val
          [] OTHER                      -> format_geocode_results(Raw(n)).val
  IN  {IF direct THEN Raw(n) ELSE [result |-> Formatted(n)] : n \in LongCounts}

LongUpstreams(direct, method) ==
  UpstreamFailures \cup {UpJson(b) : b \in LongBodies(direct, method)}

ListNext ==
  \/ /\ started.queries < MaxQueries
     /\ \E q \in ListTexts, u \in Users : Chat("t1", q, u)
  \/ Dispatch("t1")
  \/ UpstreamAnswers("t1", LongUpstreams(use_direct_api, frame["t1"].method))
  \/ Return("t1")

ListSpec == Init /\ [][ListNext]_vars

(***************************************************************************)
(* The multi-agent orchestrator                                            *)
(***************************************************************************)

\* MapsAgent.can_handle: location_keywords
maps_agent_keywords ==
  {"where", "location", "address", "place", "find", "search", "near", "nearby",
   "directions", "route", "how to get", "distance", "map", "coordinates",
   "geocode", "reverse geocode", "latitude", "longitude", "lat", "lon",
   "restaurant", "hotel", "gas station", "coffee", "shopping", "hospital"}

\* GeneralAIAgent.can_handle: general_keywords
general_agent_keywords ==
  {"hello", "hi", "help", "what can you do", "weather", "time",
   "how are you", "thank you", "goodbye", "explain", "tell me about"}

\* ContextManagerAgent.can_handle: context_keywords
context_agent_keywords == {"remember", "forget", "my location", "preferences", "history"}

\* sum(1 for keyword in keywords if keyword in query_lower)
MatchCount(query, keywords) ==
  Let(Lower(query), LAMBDA query_lower :
    Cardinality({keyword \in keywords : Contains(query_lower, keyword)}))

\* a score: the quotient num / den, den > 0
Frac(num, den) == [num |-> num, den |-> den]

FracLess(a, b) == a.num * b.den < b.num * a.den

FracEq(a, b) == a.num * b.den = b.num * a.den

\* matches / divisor, without the cap
ScoreUncapped(matches, divisor) == Frac(matches, divisor)

\* min(matches / divisor, 1.0)
ScoreOf(matches, divisor) ==
  IF FracLess(Frac(1, 1), Frac(matches, divisor)) THEN Frac(1, 1) ELSE Frac(matches, divisor)

\* self.agents, in the order in which _initialize_agents registers them
agents == <<"maps", "general_ai", "context_manager">>

agent_ids ==
  [maps |-> "maps_agent", general_ai |-> "general_ai_agent",
   context_manager |-> "context_manager_agent"]

\* agent.can_handle(query) of the agent registered as agent_type
can_handle(agent_type, query) ==
  CASE agent_type = "maps"       -> ScoreOf(MatchCount(query, maps_agent_keywords), 3)
    [] agent_type = "general_ai" -> ScoreOf(MatchCount(query, general_agent_keywords), 2)
    [] OTHER                     -> ScoreOf(MatchCount(query, context_agent_keywords), 2)

\* the score above which the orchestrator considers an agent: 0.1
score_threshold == Frac(1, 10)

\* score > 0.1
considers(score) == FracLess(score_threshold, score)

RECURSIVE ScoresFrom(_, _)
\* agent_scores: the agents the orchestrator considers with their scores, in
\* the order of self.agents
ScoresFrom(query, i) ==
  IF i > Len(agents) THEN << >>
  ELSE Let(can_handle(agents[i], query), LAMBDA score :
         (IF considers(score) THEN <<[agent_type |-> agents[i], score |-> score]>> ELSE << >>)
           \o ScoresFrom(query, i + 1))

\* max(agent_scores, key=agent_scores.get): the first key, in the order of
\* the dict, whose score no other exceeds
max_key(agent_scores) ==
  agent_scores[Min({i \in DOMAIN agent_scores :
                      \A j \in DOMAIN agent_scores :
                        ~FracLess(agent_scores[i].score, agent_scores[j].score)})].agent_type

\* AgentResponse, without its timestamp
AgentResponse(agent_id, success, result, confidence, metadata) ==
  [agent_id |-> agent_id, success |-> success, result |-> result, confidence |-> confidence,
   metadata |-> metadata]

\* MapsAgent._is_search_query and the three tests after it
maps_agent_search_keywords == {"find", "search", "look for", "show me", "where is", "what is near"}

maps_agent_directions_keywords ==
  {"directions", "route", "how to get", "navigate", "drive to", "walk to"}

maps_agent_geocoding_keywords == {"coordinates", "geocode", "latitude", "longitude"}

maps_agent_reverse_keywords == {"address", "reverse", "what is at", "what's at"}

\* the handler that MapsAgent.process_message picks, "none" when it has none
MapsHandler(query) ==
  IF AnyKeyword(query, maps_agent_search_keywords) THEN "search"
  ELSE IF AnyKeyword(query, maps_agent_directions_keywords) THEN "directions"
  ELSE IF AnyKeyword(query, maps_agent_geocoding_keywords) THEN "geocoding"
  ELSE IF AnyKeyword(query, maps_agent_reverse_keywords) THEN "reverse_geocoding"
  ELSE "none"

\* the result of the handler; the message content holds query and user_id
\* only, so address is '' and location is {}
MapsResult(handler) ==
  CASE handler = "search" ->
         [places |-> << >>, message |-> "Search functionality would be implemented here"]
    [] handler = "directions" ->
         [routes |-> << >>, message |-> "Directions functionality would be implemented here"]
    [] handler = "geocoding" ->
         [coordinates |-> EmptyDict, message |-> "Geocoding for  would be implemented here"]
    [] handler = "reverse_geocoding" ->
         [address |-> "", message |-> "Reverse geocoding for {} would be implemented here"]
    [] OTHER -> [error |-> "Unsupported location query type"]

\* str(result) of a result of the maps agent
ResultStr(result) ==
  CASE HasKey(result, "places")      -> "{'places': [], 'message': '" \o result.message \o "'}"
    [] HasKey(result, "routes")      -> "{'routes': [], 'message': '" \o result.message \o "'}"
    [] HasKey(result, "coordinates") -> "{'coordinates': {}, 'message': '" \o result.message \o "'}"
    [] HasKey(result, "address")     -> "{'address': '', 'message': '" \o result.message \o "'}"
    [] OTHER                         -> "{'error': '" \o result.error \o "'}"

\* MapsAgent.process_message
maps_process_message(query) ==
  Let(MapsResult(MapsHandler(query)), LAMBDA result :
    AgentResponse(agent_ids.maps, ~HasKey(result, "error"), result,
                  IF HasKey(result, "error") THEN Frac(1, 10) ELSE Frac(9, 10),
                  [query_type |-> "location", tools_used |-> "tomtom_mcp"]))

\* GeneralAIAgent.process_message; datetime.now() is printed as <now>
general_process_message(query) ==
  AgentResponse(agent_ids.general_ai, TRUE,
    [response |->
       IF AnyKeyword(query, {"hello", "hi"})
       THEN "Hello! I'm your multi-agent assistant. How can I help you today?"
       ELSE IF AnyKeyword(query, {"help"})
       THEN "I can help you with location searches, directions, geocoding, and general questions. What would you like to know?"
       ELSE IF AnyKeyword(query, {"weather"})
       THEN "I don't have access to real-time weather data, but I can help you find weather services or plan your travel based on locations."
       ELSE IF AnyKeyword(query, {"time"}) THEN "The current time is <now>."
       ELSE "I'm here to help! I can assist with location-based queries using TomTom Maps or answer general questions. What would you like to know?"],
    Frac(8, 10), [query_type |-> "general", response_type |-> "conversational"])

\* self.user_contexts after ContextManagerAgent.process_message: a 'remember'
\* query stores message.content.get('context', {}), and the content holds no context
context_stored(user_contexts, query, user_id) ==
  IF AnyKeyword(query, {"remember"})
  THEN [u \in DOMAIN user_contexts \cup {user_id} |->
          IF u = user_id THEN EmptyDict ELSE user_contexts[u]]
  ELSE user_contexts

\* ContextManagerAgent.process_message
context_process_message(user_contexts, query, user_id) ==
  AgentResponse(agent_ids.context_manager, TRUE,
    [response |->
       IF AnyKeyword(query, {"remember"})
       THEN "I've saved your information. I'll remember it for our conversation."
       ELSE IF AnyKeyword(query, {"my location"})
       THEN Let(Get(Get(user_contexts, user_id, EmptyDict), "current_location", EmptyDict),
                LAMBDA location :
                  IF Truthy(location) THEN "Your current location is <location>"
                  ELSE "I don't have your current location. Please share it with me.")
       ELSE "I can help manage your context and preferences. What would you like me to remember?"],
    Frac(9, 10), [query_type |-> "context", user_id |-> user_id])

\* best_agent.process_message(message)
process_message(agent_type, user_contexts, query, user_id) ==
  CASE agent_type = "maps"       -> maps_process_message(query)
    [] agent_type = "general_ai" -> general_process_message(query)
    [] OTHER                     -> context_process_message(user_contexts, query, user_id)

\* what process_query returns when it considers no agent
unknown_bundle ==
  [success |-> FALSE,
   response |-> "I'm not sure how to help with that query. Could you rephrase it?",
   query_type |-> "unknown"]

\* what process_query returns after best_agent.process_message
AgentBundle(response, conversation_id) ==
  [success |-> response.success,
   response |-> IF HasKey(response.result, "response") THEN response.result.response
                ELSE ResultStr(response.result),
   query_type |-> response.metadata.query_type,
   agent_used |-> response.agent_id,
   confidence |-> response.confidence,
   conversation_id |-> conversation_id]

\* the texts of the queries to the orchestrator
OrchestratorTexts ==
  {"", "asdf", "Hello!", "What's the weather like today?",
   "Find coffee shops near 47.6062, -122.3321",
   "How do I get from Seattle to Portland?",
   "What are the coordinates for 123 Main Street, Seattle?",
   "Remember my location is 47.6062, -122.3321",
   "help me find my location history",
   "where is the nearest hotel, explain and tell me about the weather",
   "thank you, goodbye, and forget my preferences",
   "what is my location",
   "map"}

\* agent_scores of the texts, computed once
AgentScores == [query \in OrchestratorTexts |-> ScoresFrom(query, 1)]

\* process_query starts: it sets self.conversation_id and builds the message
OrchestratorQuery(t, query, user_id) ==
  /\ pc[t] = "idle"
  /\ orchestrator' = [orchestrator EXCEPT !.conversation_id = user_id \o "_<now>"]
  /\ frame' = [frame EXCEPT ![t] = [op |-> "orchestrator.process_query", query |-> query,
                                    user_id |-> user_id,
                                    conversation_id |-> user_id \o "_<now>",
                                    agent_scores |-> << >>, dispatched |-> << >>]]
  /\ pc' = [pc EXCEPT ![t] = "agents"]
  /\ UNCHANGED <<use_direct_api, conversation_history, user_context, ret, context_calls, started>>

\* process_query scores the agents, has the best one process the message and
\* returns its response, or the unknown result when it considers no agent
OrchestratorDispatch(t) ==
  /\ pc[t] = "agents"
  /\ LET query        == frame[t].query
         agent_scores == AgentScores[query]
     IN  IF agent_scores = << >>
         THEN /\ frame' = [frame EXCEPT ![t].agent_scores = agent_scores]
              /\ ret' = [ret EXCEPT ![t] = unknown_bundle]
              /\ UNCHANGED orchestrator
         ELSE LET best_agent_type == max_key(agent_scores)
              IN  /\ frame' = [frame EXCEPT ![t].agent_scores = agent_scores,
                                            ![t].dispatched = <<best_agent_type>>]
                  /\ ret' = [ret EXCEPT ![t] =
                               AgentBundle(process_message(best_agent_type,
                                                           orchestrator.user_contexts,
                                                           query, frame[t].user_id),
                                           orchestrator.conversation_id)]
                  /\ orchestrator' =
                       [orchestrator EXCEPT !.user_contexts =
                          IF best_agent_type = "context_manager"
                          THEN context_stored(@, query, frame[t].user_id) ELSE @]
  /\ pc' = [pc EXCEPT ![t] = "done"]
  /\ UNCHANGED <<use_direct_api, conversation_history, user_context, context_calls, started>>

\* self.user_contexts after ContextManagerAgent.process_message(message),
\* content the content of the message: a 'remember' query stores
\* content.get('context', {})
context_remember(user_contexts, content) ==
  IF AnyKeyword(content.query, {"remember"})
  THEN [u \in DOMAIN user_contexts \cup {content.user_id} |->
          IF u = content.user_id THEN Get(content, "context", EmptyDict)
          ELSE user_contexts[u]]
  ELSE user_contexts

\* ContextManagerAgent.process_message is called with a message of its own
\* content, which may hold a context
ContextMessage(t, content) ==
  /\ pc[t] = "idle"
  /\ frame' = [frame EXCEPT ![t] = [op |-> "context.process_message", content |-> content]]
  /\ ret' = [ret EXCEPT ![t] =
               context_process_message(orchestrator.user_contexts, content.query,
                                       content.user_id)]
  /\ orchestrator' =
       [orchestrator EXCEPT !.user_contexts = context_remember(@, content)]
  /\ pc' = [pc EXCEPT ![t] = "done"]
  /\ UNCHANGED <<use_direct_api, conversation_history, user_context, context_calls, started>>

(***************************************************************************)
(* OrchestratorSpec: the threads of a server query the orchestrator        *)
(***************************************************************************)

OrchestratorNext ==
  \E t \in Threads :
    \/ \E q \in OrchestratorTexts, u \in Users : OrchestratorQuery(t, q, u)
    \/ OrchestratorDispatch(t)
    \/ Return(t)

OrchestratorSpec == Init /\ [][OrchestratorNext]_vars

(***************************************************************************)
(* ContextAgentSpec: a server with one thread sends 'remember' and 'my     *)
(* location' requests to the context manager agent, through the            *)
(* orchestrator and with messages that hold a context                      *)
(***************************************************************************)

ContextAgentTexts == {"Remember my location is 47.6062, -122.3321", "what is my location"}

\* the contents of the messages: query and user_id, with and without a context
ContextContents ==
  [query : ContextAgentTexts, user_id : Users]
  \cup [query : ContextAgentTexts, user_id : Users, context : ContextUpdates]

ContextAgentNext ==
  \/ \E content \in ContextContents : ContextMessage("t1", content)
  \/ \E q \in ContextAgentTexts, u \in Users : OrchestratorQuery("t1", q, u)
  \/ OrchestratorDispatch("t1")
  \/ Return("t1")

ContextAgentSpec == Init /\ [][ContextAgentNext]_vars

(***************************************************************************)
(* LocationSpec: contexts are stored, then a chat request is answered      *)
(***************************************************************************)

\* set_user_context calls started in one behaviour that ends in a query
MaxStored == 2

\* the texts of the chat requests that need a location
LocationTexts ==
  {"Find coffee shops near 47.6062, -122.3321",
   "Find coffee",
   "Find coffee near 95.5, 10.0",
   "my address",
   "address of 47.6062, -122.3321",
   "Hello!"}

LocationNext ==
  \/ /\ started.contexts < MaxStored
     /\ started.queries = 0
     /\ \E u \in Users, c \in ContextUpdates : SetContextTest("t1", u, c)
  \/ SetContextCreate("t1")
  \/ SetContextUpdate("t1")
  \/ QueryStep("t1", LocationTexts, MaxQueries)
  \/ Return("t1")

LocationSpec == Init /\ [][LocationNext]_vars

(***************************************************************************)
(* Properties                                                              *)
(***************************************************************************)

\* thread t is in a process_query call, or has just returned from one
InQuery(t) == frame[t].op = "process_query"

\* the call of thread t has chosen its handler
Routed(t) == InQuery(t) /\ pc[t] \in {"upstream", "done"}

\* process_query has returned to thread t
Returned(t) == InQuery(t) /\ pc[t] = "done"

\* every text a chat request of the model carries
AllTexts == QueryTexts \cup SharedTexts \cup HistoryTexts

\* whether the text holds a trigger of the query type
Triggered(type, text) ==
  CASE type = "search"            -> is_search_query(text)
    [] type = "directions"        -> is_directions_query(text)
    [] type = "geocoding"         -> AnyKeyword(text, geocoding_keywords)
    [] type = "reverse_geocoding" -> AnyKeyword(text, reverse_geocoding_keywords)
    [] type = "location"          -> is_location_query(text)
    [] OTHER                      -> FALSE

\* the first type of order that the text triggers, general when there is none
FirstTriggered(order, text) ==
  Let({n \in 1..Len(order) : Triggered(order[n], text)}, LAMBDA hits :
    IF hits = {} THEN "general" ELSE order[Min(hits)])

\* what the texts trigger, computed once
Triggers ==
  [q \in AllTexts |->
     [first      |-> FirstTriggered(<<"search", "directions", "geocoding", "reverse_geocoding",
                                      "location">>, q),
      listed     |-> FirstTriggered(<<"search", "directions", "geocoding", "reverse_geocoding",
                                      "matrix">>, q),
      search     |-> is_search_query(q),
      directions |-> is_directions_query(q)]]

C2_AsStated ==
  \A t \in Threads :
    Returned(t) =>
      LET tr == Triggers[frame[t].user_query]
      IN  /\ tr.directions /\ ~tr.search =>
               HasKey(ret[t], "query_type") /\ ret[t].query_type = "directions"
          /\ tr.search /\ ~tr.directions =>
               HasKey(ret[t], "query_type") /\ ret[t].query_type = "search"

\* the provider calls of the process_query call of thread t, the pending one included
Invocations(t) ==
  IF ~InQuery(t) THEN << >>
  ELSE frame[t].invocations
         \o (IF pc[t] = "upstream"
             THEN <<[method |-> frame[t].method, params |-> frame[t].params]>> ELSE << >>)

\* the required fields of a provider call are there and not empty
RequiredFieldsGiven(inv) ==
  CASE inv.method = "maps.search" ->
         Get(inv.params, "query", "") # "" /\ Truthy(Get(inv.params, "location", None))
    [] inv.method = "maps.geocode" -> Get(inv.params, "address", "") # ""
    [] inv.method = "maps.reverseGeocode" ->
         ~IsNone(Get(inv.params, "lat", None)) /\ ~IsNone(Get(inv.params, "lon", None))
    [] inv.method = "maps.directions" ->
         Truthy(Get(inv.params, "origin", None)) /\ Truthy(Get(inv.params, "destination", None))
    [] OTHER -> TRUE

\* C3 as stated: process_query calls a provider operation only with its
\* required fields non-empty (search: term and location; geocode: address;
\* reverse geocode: location; directions: origin and destination).
C3_AsStated ==
  \A t \in Threads :
    \A n \in DOMAIN Invocations(t) : RequiredFieldsGiven(Invocations(t)[n])

\* C4 as stated: when a step of process_query raises, the bundle it returns
\* has the generic error reply and no field of it holds the exception text.
C4_AsStated ==
  \A t \in Threads :
    Returned(t) /\ frame[t].stage = "raise" =>
      /\ ret[t].response = error_reply
      /\ \A k \in DOMAIN ret[t] \cap {"error", "response", "user_id"} :
           ~Contains(ret[t][k], frame[t].exc)

\* thread t has returned from a _call_mcp_method call
ProviderReturned(t) == frame[t].op = "_call_mcp_method" /\ pc[t] = "done"

\* the upstream of the call of thread t was asked and has failed: no answer,
\* a status other than 200, a body that is no JSON, a JSON-RPC error object
UpstreamFailed(t) ==
  /\ ret[t].requests > 0
  /\ \/ frame[t].up.kind \in {"exception", "status", "bad_json"}
     \/ /\ ~use_direct_api
        /\ frame[t].up.kind = "json"
        /\ HasKey(frame[t].up.body, "error")
        /\ ~HasKey(frame[t].up.body, "result")

\* C5: _call_mcp_method and _call_direct_api never raise, whatever the method,
\* the parameters and the upstream outcome; when the upstream fails they
\* return a dict with an 'error' key.
C5_NeverRaises ==
  \A t \in Threads :
    ProviderReturned(t) =>
      /\ ~Raised(ret[t])
      /\ UpstreamFailed(t) => HasKey(ret[t].val, "error")

\* a call whose HTTP request raised has returned the exception text as error
C5_Witness ==
  \E t \in Threads :
    /\ ProviderReturned(t)
    /\ ret[t].requests > 0
    /\ frame[t].up.kind = "exception"
    /\ ret[t] = Sent(Ret([error |-> frame[t].up.exc]))

\* C6 as stated: when process_query(text, u) has returned, the log of u is
\* its log before the call, then the user entry with the text, then the
\* assistant entry with the returned reply.
C6_AsStated ==
  \A t \in Threads :
    Returned(t) =>
      LET log    == UserHistory(conversation_history, frame[t].user_id)
          before == frame[t].log_before
      IN  /\ Len(log) = Len(before) + 2
          /\ SubSeq(log, 1, Len(before)) = before
          /\ log[Len(before) + 1] =
               UserEntry(frame[t].user_id, frame[t].user_query, frame[t].call)
          /\ log[Len(before) + 2].type = "assistant"
          /\ log[Len(before) + 2].response = ret[t].response

\* C7 as stated, for the calls that wrote an assistant entry: in the log of
\* every user each assistant entry directly follows the user entry of its
\* own process_query call.
C7_AsStated ==
  \A u \in Users :
    LET log == UserHistory(conversation_history, u)
    IN  \A i \in DOMAIN log :
          log[i].type = "assistant" =>
            i > 1 /\ log[i - 1].type = "user" /\ log[i - 1].call = log[i].call

\* the keys of the contexts calls
KeysOf(calls) == UNION {DOMAIN calls[n] : n \in DOMAIN calls}

\* the value of key k in the last of the contexts calls that holds it
LastValue(calls, k) == calls[Max({n \in DOMAIN calls : k \in DOMAIN calls[n]})][k]

\* get_user_context has returned to thread t
ContextRead(t) == frame[t].op = "get_user_context" /\ pc[t] = "done"

\* C8: get_user_context(u) returns the keys of all contexts set for u, each
\* with the value of the last set_user_context call that held it, and the
\* empty context for a user that was never set.
C8_ShallowMerge ==
  \A t \in Threads :
    ContextRead(t) =>
      LET calls == context_calls[frame[t].user_id]
      IN  /\ DOMAIN ret[t] = KeysOf(calls)
          /\ \A k \in KeysOf(calls) : ret[t][k] = LastValue(calls, k)

\* a context read after three calls: a key of the first call that the later
\* ones lack, and a key whose value the third call has changed
C8_Witness ==
  \E t \in Threads :
    /\ ContextRead(t)
    /\ LET calls == context_calls[frame[t].user_id]
       IN  /\ Len(calls) = 3
           /\ \E k \in DOMAIN calls[1] : k \notin DOMAIN calls[2] \cup DOMAIN calls[3]
           /\ \E k \in DOMAIN calls[2] \cap DOMAIN calls[3] : calls[2][k] # calls[3][k]

\* get_conversation_history has returned to thread t
HistoryRead(t) == frame[t].op = "get_conversation_history" /\ pc[t] = "done"

\* the last n entries of log, all of them when there are fewer
MostRecent(log, n) == [i \in 1..Min({n, Len(log)}) |-> log[Len(log) - Min({n, Len(log)}) + i]]

\* C9 (as the code has it): for a limit N >= 1 get_conversation_history(u, N)
\* returns at most N entries, all of u, the N most recent in order, and the
\* full log when N is at least its length; for N < 0 it returns the log
\* without its first -N entries.
C9_MostRecent ==
  \A t \in Threads :
    HistoryRead(t) /\ frame[t].given /\ frame[t].limit # 0 =>
      LET log == UserHistory(conversation_history, frame[t].user_id)
          n   == frame[t].limit
      IN  IF n >= 1
          THEN /\ Len(ret[t]) <= n
               /\ \A i \in DOMAIN ret[t] : ret[t][i].user_id = frame[t].user_id
               /\ ret[t] = MostRecent(log, n)
               /\ n >= Len(log) => ret[t] = log
          ELSE ret[t] = MostRecent(log, Len(log) - Min({Len(log), 0 - n}))

\* a read with a limit below the length of the user's log, while the other
\* user has entries too
C9_Witness ==
  \E t \in Threads :
    /\ HistoryRead(t) /\ frame[t].given
    /\ frame[t].limit >= 1
    /\ frame[t].limit < Len(UserHistory(conversation_history, frame[t].user_id))
    /\ Len(UserHistory(conversation_history, frame[t].user_id)) < Len(conversation_history)

\* C9 as stated, for the limits N >= 0: the read returns at most N entries, all
\* of u, the N most recent in order, and the full log when N is at least its length.
C9_AsStated ==
  \A t \in Threads :
    HistoryRead(t) /\ frame[t].given /\ frame[t].limit >= 0 =>
      LET log == UserHistory(conversation_history, frame[t].user_id)
          n   == frame[t].limit
      IN  /\ Len(ret[t]) <= n
          /\ \A i \in DOMAIN ret[t] : ret[t][i].user_id = frame[t].user_id
          /\ ret[t] = MostRecent(log, n)
          /\ n >= Len(log) => ret[t] = log

\* C10 (as the code has it): with limit zero the read returns all entries of
\* the user; with no limit given it returns the ten most recent ones.
C10_ZeroAndDefault ==
  \A t \in Threads :
    HistoryRead(t) =>
      LET log == UserHistory(conversation_history, frame[t].user_id)
      IN  /\ frame[t].given /\ frame[t].limit = 0 => ret[t] = log
          /\ ~frame[t].given => ret[t] = MostRecent(log, 10)

\* a read without a limit of a log of more than ten entries
C10_Witness ==
  \E t \in Threads :
    /\ HistoryRead(t) /\ ~frame[t].given
    /\ Len(UserHistory(conversation_history, frame[t].user_id)) > 10

\* C10 as stated: with limit zero or with no limit given the read returns all
\* entries of the user, whatever the length of the log.
C10_AsStated ==
  \A t \in Threads :
    HistoryRead(t) /\ (~frame[t].given \/ frame[t].limit = 0) =>
      ret[t] = UserHistory(conversation_history, frame[t].user_id)

\* _extract_location_from_query has run in the process_query call of thread t
Extracted(t) ==
  /\ Routed(t)
  /\ \/ frame[t].query_type = "reverse_geocoding"
     \/ frame[t].query_type = "search" /\ search_term_of(frame[t].user_query) # ""

\* the location the coordinate pattern finds in the text, None when it finds
\* no pair or a pair out of bounds
TextLocation(text) ==
  Let(CoordSearch(text), LAMBDA m :
    IF IsNone(m) THEN None ELSE LocationOf(ParseFloat(m.g1), ParseFloat(m.g2)))

\* the location that _extract_location_from_query gave the handler of thread t
UsedLocation(t) == extract_location_from_query(frame[t].user_query, user_context)

\* C11 as stated: a valid coordinate pair in the text is the location that
\* _extract_location_from_query returns, whatever the context store holds, and
\* a pair out of bounds gives no location from the text.
C11_AsStated ==
  \A t \in Threads :
    Extracted(t) /\ ~IsNone(CoordSearch(frame[t].user_query)) =>
      IF IsNone(TextLocation(frame[t].user_query))
      THEN UsedLocation(t) # [lat |-> ParseFloat(CoordSearch(frame[t].user_query).g1),
                              lon |-> ParseFloat(CoordSearch(frame[t].user_query).g2)]
      ELSE /\ UsedLocation(t) = TextLocation(frame[t].user_query)
           /\ pc[t] = "upstream" => frame[t].location = TextLocation(frame[t].user_query)

\* C12 as stated: when the text of a search or reverse geocode query of user u
\* holds no coordinate pair and u has stored a current_location L, the query
\* runs with location L; the reply asks for a location only when u has
\* stored none.
C12_AsStated ==
  \A t \in Threads :
    Extracted(t) /\ IsNone(CoordSearch(frame[t].user_query)) =>
      LET own == get_user_context(user_context, frame[t].user_id)
      IN  /\ HasKey(own, "current_location") =>
               /\ UsedLocation(t) = own.current_location
               /\ pc[t] = "upstream" => frame[t].location = own.current_location
          /\ frame[t].response \in {search_need_location_reply(frame[t].search_term),
                                    reverse_need_location_reply} =>
               ~HasKey(own, "current_location")

\* the context store with the contexts of the other users taken out
OwnStore(user_id) ==
  [u \in DOMAIN user_context \cap {user_id} |-> user_context[u]]

\* the process_query call of thread t as it ran up to its first upstream
\* request, had the store held the context of its own user only
RanAlone(t) ==
  Run(StartHandler([QueryFrame(frame[t].user_query, frame[t].user_id, frame[t].call,
                               frame[t].log_before)
                      EXCEPT !.query_type = Route(frame[t].user_query)],
                   OwnStore(frame[t].user_id)),
      use_direct_api)

\* C13 as stated, for the contexts: the location a query of user A runs with,
\* its first provider call and its reply are those it has when no other
\* user has stored a context.
C13_AsStated ==
  \A t \in Threads :
    Routed(t) /\ frame[t].invocations = << >> =>
      /\ Extracted(t) =>
           UsedLocation(t) = extract_location_from_query(frame[t].user_query,
                                                         OwnStore(frame[t].user_id))
      /\ frame[t] = RanAlone(t)

\* the apologetic messages of the capability of frame f that embed error
Apologies(f, error) ==
  CASE f.query_type = "search"            -> {search_error_reply(f.search_term, error)}
    [] f.query_type = "directions"        -> {directions_error_reply(error),
                                              geocoding_error_reply(error)}
    [] f.query_type = "reverse_geocoding" -> {reverse_error_reply(error)}
    [] OTHER                              -> {geocoding_error_reply(error)}

\* the results of the provider calls of frame f that its handler has read
ResultsRead(f) ==
  {r \in {f.result, f.origin_result, f.destination_result} : ~IsNone(r)}

\* C14 as stated: when a handler has composed the reply and one of its
\* provider calls, the geocoding calls of a directions query included, had
\* returned an error result, the reply is the apologetic message of the
\* capability with the error text in it.
C14_AsStated ==
  \A t \in Threads :
    Returned(t) /\ frame[t].stage = "reply" =>
      \A r \in ResultsRead(frame[t]) :
        HasKey(r, "error") => ret[t].response \in Apologies(frame[t], r.error)

\* the search terms and the addresses that the texts of the chat requests give
SearchTerms == {search_term_of(q) : q \in QueryTexts}

Addresses == {geocoding_address_of(q) : q \in QueryTexts}

\* text is an apologetic message for an upstream error, whatever the error text
IsApology(text) ==
  \/ \E term \in SearchTerms : At(text, 1, search_error_reply(term, ""))
  \/ At(text, 1, directions_error_reply(""))
  \/ At(text, 1, geocoding_error_reply(""))
  \/ At(text, 1, reverse_error_reply(""))

\* the replies that ask for a missing parameter
Clarifications ==
  {search_need_term_reply, directions_need_both_reply, geocoding_need_address_reply,
   reverse_need_location_reply}
    \cup {search_need_location_reply(term) : term \in SearchTerms}

\* the key under which the result of a capability lists its items
ItemsKey(next) ==
  CASE next = "search_result"     -> "places"
    [] next = "directions_result" -> "routes"
    [] OTHER                      -> "results"

\* the handler of thread t has composed the reply from the result of its
\* capability, a success result with zero items
ZeroItems(t) ==
  /\ Returned(t) /\ frame[t].stage = "reply"
  /\ frame[t].next \in {"search_result", "directions_result", "geocoding_result",
                        "reverse_result"}
  /\ ~HasKey(frame[t].result, "error")
  /\ HasKey(frame[t].result, ItemsKey(frame[t].next))
  /\ frame[t].result[ItemsKey(frame[t].next)] = << >>

NoTrigger(text) ==
  /\ ~is_search_query(text) /\ ~is_directions_query(text)
  /\ ~AnyKeyword(text, geocoding_keywords) /\ ~AnyKeyword(text, reverse_geocoding_keywords)
  /\ ~is_location_query(text)

\* C16: for a text with no trigger process_query makes no provider call,
\* and it returns query_type general with success true.
C16_GeneralNoProvider ==
  \A t \in Threads :
    InQuery(t) /\ NoTrigger(frame[t].user_query) =>
      /\ pc[t] # "upstream" /\ Invocations(t) = << >>
      /\ Returned(t) => /\ ret[t].success
                        /\ HasKey(ret[t], "query_type") /\ ret[t].query_type = "general"

\* the empty text or the greeting has been answered by the general handler
C16_Witness ==
  \E t \in Threads :
    /\ Returned(t) /\ frame[t].user_query \in {"", "Hello!"}
    /\ ret[t].success /\ ret[t].query_type = "general"
    /\ ret[t].response \in {general_greeting_reply, general_default_reply}

\* C17 as stated: a text with a coordinate pair and no search, directions or
\* geocode trigger gets query_type reverse_geocoding, and maps.reverseGeocode
\* is called with the coordinates of the text.
C17_AsStated ==
  \A t \in Threads :
    /\ Routed(t) /\ user_context = EmptyDict
    /\ ~IsNone(TextLocation(frame[t].user_query))
    /\ ~is_search_query(frame[t].user_query) /\ ~is_directions_query(frame[t].user_query)
    /\ ~AnyKeyword(frame[t].user_query, geocoding_keywords)
    => /\ frame[t].query_type = "reverse_geocoding"
       /\ Invocations(t) # << >>
       /\ Invocations(t)[1] = [method |-> tomtom_methods.reverse_geocode,
                               params |-> TextLocation(frame[t].user_query)]

\* general conversation: a greeting, a help request, a question on the weather
ConversationTexts == {"Hello!", "help", "What's the weather like today?"}

\* C18 as stated: a text of general conversation gets query_type general and
\* the reply of the general handler, and no provider call is made for it.
C18_AsStated ==
  \A t \in Threads :
    Routed(t) /\ frame[t].user_query \in ConversationTexts =>
      /\ frame[t].query_type = "general"
      /\ Invocations(t) = << >>
      /\ Returned(t) => ret[t].response = handle_general_query(frame[t]).response

\* MultiAgentOrchestrator.process_query has returned to thread t
OrchestratorReturned(t) == frame[t].op = "orchestrator.process_query" /\ pc[t] = "done"

\* the place of the agent in the order of registration
Registered(agent_type) == CHOOSE i \in DOMAIN agents : agents[i] = agent_type

\* C19 as stated: when the score of no agent exceeds the threshold, the
\* general agent processes the query and process_query returns a successful
\* general reply, no error and no unknown result.
C19_AsStated ==
  \A t \in Threads :
    /\ OrchestratorReturned(t)
    /\ \A i \in DOMAIN agents : ~considers(can_handle(agents[i], frame[t].query))
    => /\ frame[t].dispatched = <<"general_ai">>
       /\ ret[t].success
       /\ ret[t].query_type = "general"

\* C20 as stated: process_query dispatches every query to exactly one agent,
\* whose score exceeds the threshold and is exceeded by the score of no other
\* agent, and which is the first registered of the agents with that score.
C20_AsStated ==
  \A t \in Threads :
    OrchestratorReturned(t) =>
      /\ Len(frame[t].dispatched) = 1
      /\ LET best  == frame[t].dispatched[1]
             score == can_handle(best, frame[t].query)
         IN  /\ considers(score)
             /\ ret[t].agent_used = agent_ids[best]
             /\ \A i \in DOMAIN agents :
                  /\ ~FracLess(score, can_handle(agents[i], frame[t].query))
                  /\ FracEq(score, can_handle(agents[i], frame[t].query)) =>
                       Registered(best) <= i

\* the parameters a direct operation builds its HTTP request from are given
RequestParamsGiven(method, params) ==
  LET Point(p) == HasKey(p, "lat") /\ HasKey(p, "lon")
  IN  CASE method = "maps.search" -> TRUE
        [] method = "maps.directions" ->
             /\ Truthy(Get(params, "origin", EmptyDict))
             /\ Truthy(Get(params, "destination", EmptyDict))
             /\ Point(params.origin) /\ Point(params.destination)
        [] method = "maps.geocode" -> Get(params, "address", "") # ""
        [] method = "maps.reverseGeocode" ->
             ~IsNone(Get(params, "lat", None)) /\ ~IsNone(Get(params, "lon", None))
        [] method = "maps.matrix" ->
             /\ Get(params, "origins", << >>) # << >>
             /\ Get(params, "destinations", << >>) # << >>
             /\ \A i \in DOMAIN params.origins : Point(params.origins[i])
             /\ \A i \in DOMAIN params.destinations : Point(params.destinations[i])
        [] OTHER -> FALSE

\* C21: a provider call sends at most one HTTP request, whatever its upstream
\* answers, in direct and in MCP mode (no retry); in direct mode search,
\* directions, geocode, reverse geocode and matrix send exactly one when
\* their parameters are given, and static map sends none.
C21_OneRequest ==
  \A t \in Threads :
    ProviderReturned(t) =>
      /\ ret[t].requests <= 1
      /\ use_direct_api /\ frame[t].method = "maps.staticMap" => ret[t].requests = 0
      /\ use_direct_api /\ RequestParamsGiven(frame[t].method, frame[t].params) =>
           ret[t].requests = 1

\* a direct geocode or matrix call whose one request met an exception has
\* returned
C21_Witness ==
  \E t \in Threads :
       /\ use_direct_api
       /\ ProviderReturned(t)
       /\ frame[t].method \in {"maps.geocode", "maps.matrix"}
       /\ RequestParamsGiven(frame[t].method, frame[t].params)
       /\ frame[t].up.kind = "exception"
       /\ ret[t].requests = 1

RECURSIVE DropPunctuation(_)
\* the text without its trailing punctuation
DropPunctuation(s) ==
  IF s # "" /\ Char(s, Len(s)) \in {"?", "!", ".", ","}
  THEN DropPunctuation(SubSeq(s, 1, Len(s) - 1))
  ELSE s

\* the X and Y of the texts of the form '... from X to Y', None for the
\* other texts, computed once
FromToForms ==
  [q \in QueryTexts |->
     Let(FromToSearch(q), LAMBDA m :
       IF IsNone(m) THEN None
       ELSE [origin_text |-> m.origin_text,
             destination_text |-> DropPunctuation(m.destination_text)])]

\* C22 as stated: a directions query on '... from X to Y' with optional
\* trailing punctuation geocodes the texts X and Y (for 'How do I get from
\* Seattle to Portland?' they are 'Seattle' and 'Portland'), and a directions
\* query without the pattern makes no provider call.
C22_AsStated ==
  /\ FromToForms["How do I get from Seattle to Portland?"] =
       [origin_text |-> "Seattle", destination_text |-> "Portland"]
  /\ \A t \in Threads :
       Routed(t) /\ frame[t].query_type = "directions" =>
         LET form == FromToForms[frame[t].user_query]
             inv  == Invocations(t)
         IN  IF IsNone(form) THEN inv = << >>
             ELSE /\ Len(inv) >= 1
                  /\ inv[1] = [method |-> "maps.geocode",
                               params |-> [address |-> form.origin_text]]
                  /\ Len(inv) >= 2 =>
                       inv[2] = [method |-> "maps.geocode",
                                 params |-> [address |-> form.destination_text]]

\* the handler of thread t has composed its reply from the places of a
\* search result or from the steps of the route of a directions result
ListReply(t) ==
  /\ Returned(t) /\ frame[t].stage = "reply"
  /\ frame[t].next \in {"search_result", "directions_result"}
  /\ ~HasKey(frame[t].result, "error")
  /\ HasKey(frame[t].result, ItemsKey(frame[t].next))
  /\ frame[t].result[ItemsKey(frame[t].next)] # << >>
  /\ frame[t].next = "directions_result" => HasKey(frame[t].result.routes[1], "steps")

\* the number of items returned to the handler of thread t
ItemsReturned(t) ==
  IF frame[t].next = "search_result" THEN Len(frame[t].result.places)
  ELSE Len(frame[t].result.routes[1].steps)

\* the start of the line of item k of a reply
ItemLine(k) == "\n" \o ToString(k) \o ". "

\* C23 as stated: a search reply lists min(5, n) of the n places returned and
\* a directions reply min(5, n) of the n steps, and a reply composed from more
\* than 5 items states how many more, n - 5, were left out.
C23_AsStated ==
  \A t \in Threads :
    ListReply(t) =>
      LET n    == ItemsReturned(t)
          text == ret[t].response
      IN  /\ \A k \in 1..(n + 1) : Contains(text, ItemLine(k)) <=> k <= Min({5, n})
          /\ n > 5 => Contains(text, ToString(n - 5) \o " more")

\* per text: the places of the vocabulary entries that occur in the
\* lower-cased text, and its words longer than 3 characters that are no stop
\* words, computed once
TermForms ==
  [q \in ListTexts |->
     [places |-> {n \in DOMAIN common_places : Contains(Lower(q), common_places[n])},
      words  |-> SelectSeq(Split(q),
                           LAMBDA w : Len(w) > 3 /\ Lower(w) \notin search_stop_words)]]

\* thread t is in a search query, its handler started
InSearch(t) == Routed(t) /\ frame[t].query_type = "search"

\* C24: the search term of a search query is the vocabulary entry that occurs
\* in the lower-cased text, the first of the vocabulary when several occur
\* ('coffee' for 'Find coffee shops near 47.6062, -122.3321'); without one it
\* is the first word of the text longer than 3 characters and no stop word;
\* without either the reply asks what to search for and no provider call is
\* made.  The search call carries the search term.
C24_SearchTerm ==
  /\ TermForms["Find coffee shops near 47.6062, -122.3321"].places # {}
  /\ \A t \in Threads :
       InSearch(t) =>
         LET form == TermForms[frame[t].user_query]
             inv  == Invocations(t)
         IN  /\ frame[t].user_query = "Find coffee shops near 47.6062, -122.3321" =>
                  frame[t].search_term = "coffee"
             /\ IF form.places # {}
                THEN frame[t].search_term = common_places[Min(form.places)]
                ELSE IF form.words # << >>
                THEN frame[t].search_term = form.words[1]
                ELSE /\ inv = << >>
                     /\ frame[t].stage = "reply"
                     /\ frame[t].response = search_need_term_reply
             /\ \A n \in DOMAIN inv :
                  inv[n].method = "maps.search" /\ inv[n].params.query = frame[t].search_term

\* a search for the first long word of a text without a place category has
\* called the provider
C24_Witness ==
  \E t \in Threads :
    /\ InSearch(t)
    /\ TermForms[frame[t].user_query].places = {}
    /\ Invocations(t) # << >>
    /\ Invocations(t)[1].params.query = "Pizza"

\* the keywords an agent counts and the divisor of its count
AgentKeywords(agent_type) ==
  CASE agent_type = "maps"       -> maps_agent_keywords
    [] agent_type = "general_ai" -> general_agent_keywords
    [] OTHER                     -> context_agent_keywords

AgentDivisor(agent_type) == IF agent_type = "maps" THEN 3 ELSE 2

AgentTypes == {agents[i] : i \in DOMAIN agents}

\* per text and agent: the number of the agent's keywords in the text and
\* the score of can_handle, computed once
Scored ==
  [q \in OrchestratorTexts |->
     [a \in AgentTypes |->
        [matches |-> MatchCount(q, AgentKeywords(a)), score |-> can_handle(a, q)]]]

\* 0 <= x <= 1
InUnit(x) == ~FracLess(x, Frac(0, 1)) /\ ~FracLess(Frac(1, 1), x)

\* C25: the score of every agent's can_handle lies in [0, 1], is the number
\* of its keywords matched divided by its divisor (3 for the maps agent, 2
\* for the others) while that is below 1 and is 1 from the divisor's count
\* upward, and is no lower for a text that matches more of the keywords; the
\* confidence of the returned response lies in [0, 1].
C25_Confidence ==
  \A t \in Threads :
    OrchestratorReturned(t) =>
      /\ \A a \in AgentTypes :
           LET m == Scored[frame[t].query][a].matches
               s == Scored[frame[t].query][a].score
               d == AgentDivisor(a)
           IN  /\ InUnit(s)
               /\ m < d => FracEq(s, Frac(m, d))
               /\ m >= d => FracEq(s, Frac(1, 1))
               /\ \A q \in OrchestratorTexts :
                    m <= Scored[q][a].matches => ~FracLess(Scored[q][a].score, s)
      /\ HasKey(ret[t], "confidence") => InUnit(ret[t].confidence)

\* a query with more keywords of the general agent than its divisor has been
\* given score 1 and has been answered
C25_Witness ==
  \E t \in Threads :
    /\ OrchestratorReturned(t)
    /\ Scored[frame[t].query]["general_ai"].matches > AgentDivisor("general_ai")
    /\ FracEq(Scored[frame[t].query]["general_ai"].score, Frac(1, 1))
    /\ HasKey(ret[t], "confidence")

\* set_user_context has returned to thread t
ContextSet(t) == frame[t].op = "set_user_context" /\ pc[t] = "done"

\* C26 as stated: when two set_user_context calls with disjoint key sets, the
\* only calls made for their user, have both returned, get_user_context of
\* that user holds the keys of both.
C26_AsStated ==
  \A t1, t2 \in Threads :
    /\ t1 # t2
    /\ ContextSet(t1) /\ ContextSet(t2)
    /\ frame[t1].user_id = frame[t2].user_id
    /\ Len(context_calls[frame[t1].user_id]) = 2
    /\ DOMAIN frame[t1].context \cap DOMAIN frame[t2].context = {}
    => (DOMAIN frame[t1].context \cup DOMAIN frame[t2].context)
         \subseteq DOMAIN get_user_context(user_context, frame[t1].user_id)

\* the step has thread t return from a 'remember' request that the context
\* manager agent processed
RememberStep(t) ==
  /\ pc[t] # "done" /\ pc'[t] = "done"
  /\ \/ /\ frame'[t].op = "context.process_message"
        /\ AnyKeyword(frame'[t].content.query, {"remember"})
     \/ /\ frame'[t].op = "orchestrator.process_query"
        /\ frame'[t].dispatched = <<"context_manager">>
        /\ AnyKeyword(frame'[t].query, {"remember"})

\* the user of the request of the step and the context it supplied
RememberUser(t) ==
  IF frame'[t].op = "context.process_message" THEN frame'[t].content.user_id
  ELSE frame'[t].user_id

RememberContext(t) ==
  IF frame'[t].op = "context.process_message"
  THEN Get(frame'[t].content, "context", EmptyDict)
  ELSE EmptyDict

\* C27 as stated: a 'remember' request merges the supplied context into the
\* stored context of its user: every key stored before the request and not
\* supplied in it keeps its value, so a current_location stored earlier is
\* still there for a later 'my location' request.
C27_AsStated ==
  [][\A t \in Threads :
       RememberStep(t) =>
         LET before == Get(orchestrator.user_contexts, RememberUser(t), EmptyDict)
             after  == Get(orchestrator'.user_contexts, RememberUser(t), EmptyDict)
         IN  \A k \in DOMAIN before \ DOMAIN RememberContext(t) :
               HasKey(after, k) /\ after[k] = before[k]]_vars

\* process_query has returned a reply bundle to thread t
BundleReturned(t) ==
  /\ Returned(t)
  /\ HasKey(ret[t], "success") /\ HasKey(ret[t], "response") /\ HasKey(ret[t], "user_id")

\* C28: a process_query call is either running its handler or waiting for
\* the answer of one upstream call, it makes at most three provider calls
\* (three for a directions query, at most one for any other), and it
\* eventually returns a reply bundle.
C28_Returns ==
  /\ [](\A t \in Threads :
          InQuery(t) =>
            /\ pc[t] \in {"route", "upstream", "done"}
            /\ Len(Invocations(t)) <= (IF frame[t].query_type = "directions" THEN 3 ELSE 1))
  /\ \A t \in Threads : (InQuery(t) /\ pc[t] # "done") ~> BundleReturned(t)

\* a directions query has returned after its three provider calls
C28_Witness ==
  \E t \in Threads :
    /\ BundleReturned(t)
    /\ frame[t].query_type = "directions"
    /\ Len(Invocations(t)) = 3

\* C29 as stated: a result of MultiAgentOrchestrator.process_query that
\* carries a conversation_id carries the id generated for its own call, which
\* begins with the user_id of that call, also when calls overlap.
C29_AsStated ==
  \A t \in Threads :
    OrchestratorReturned(t) /\ HasKey(ret[t], "conversation_id") =>
      /\ ret[t].conversation_id = frame[t].conversation_id
      /\ At(ret[t].conversation_id, 1, frame[t].user_id \o "_")

\* per text: the first of the four handlers of the maps agent whose keywords
\* the text holds, "none" without one, computed once
MapsHandlers ==
  [q \in OrchestratorTexts |->
     Let(<<maps_agent_search_keywords, maps_agent_directions_keywords,
           maps_agent_geocoding_keywords, maps_agent_reverse_keywords>>, LAMBDA keywords :
     Let({n \in 1..4 : AnyKeyword(q, keywords[n])}, LAMBDA hits :
       IF hits = {} THEN "none"
       ELSE <<"search", "directions", "geocoding", "reverse_geocoding">>[Min(hits)]))]

\* C30 as stated: a query that the orchestrator dispatches to the maps agent
\* is handled by the first of the search, directions, geocoding and reverse
\* geocoding handlers whose keywords it holds, and is never answered with
\* the 'Unsupported location query type' error.
C30_AsStated ==
  \A t \in Threads :
    OrchestratorReturned(t) /\ frame[t].dispatched = <<"maps">> =>
      /\ MapsHandlers[frame[t].query] # "none"
      /\ ret[t].response = ResultStr(MapsResult(MapsHandlers[frame[t].query]))
      /\ ret[t].success
      /\ ~Contains(ret[t].response, "Unsupported location query type")
====
